---- MODULE Spec2Model ----
(***************************************************************************)
(* Model of the MediaNet backend (backend/advertiser.py,                   *)
(* backend/publisher.py, backend/keywordanalysis.py, backend/analysis.py). *)
(*                                                                         *)
(* Texts are strings; a document (a Python dict) is a TLA+ record whose    *)
(* values are strings (numbers are written as in the source, "0.5").       *)
(* Cosine similarities are integers in hundredths (0.3 is 30).             *)
(***************************************************************************)
EXTENDS Integers, Sequences, FiniteSets, TLC

VARIABLES
    METRICS,            \* svc -> the metric catalog, <<key, description>> in insertion order
    FUNCTION_MAP,       \* svc -> [key -> name of the handler function]
    metric_keys,        \* svc -> list(METRICS.keys())
    metric_embeddings,  \* svc -> model.encode(metric_texts), one row per catalog entry
    handler_docs,       \* svc -> [handler -> the dict the handler returns on its next call]
    playwright_available, \* publisher.py global: the browser renderer can be used
    gemini_model,       \* publisher.py global: "configured" or "None"
    GEMINI_AVAILABLE,   \* advertiser.py global: google.generativeai could be imported
    exa_agent,          \* exa_agent.py singleton: its exa_client and gemini_model
    image_gen_service,  \* imggen.py singleton: its client
    keyword_analysis_service, \* keywordanalysis.py singleton: its clients and is_initialized
    rag_engine,         \* ragengine.py singleton: its components and is_initialized
    decorated,          \* <<svc, handler>> of the dict the last /query request decorated
    pc,                 \* the position of the handler that is running, "idle" if none
    locals,             \* the local variables of the handler that is running
    req,                \* the request last handled
    resp                \* its outcome

vars == <<METRICS, FUNCTION_MAP, metric_keys, metric_embeddings, handler_docs,
          playwright_available, gemini_model, GEMINI_AVAILABLE, exa_agent,
          image_gen_service, keyword_analysis_service, rag_engine,
          decorated, pc, locals, req, resp>>

Services == {"advertiser", "publisher"}

(***************************************************************************)
(* Small helpers on sequences and documents.                               *)
(***************************************************************************)
Range(s) == {s[i] : i \in 1..Len(s)}

\* {**a, **b}: the fields of b win
Merge(a, b) == [f \in (DOMAIN a) \cup (DOMAIN b) |-> IF f \in DOMAIN b THEN b[f] ELSE a[f]]

\* d[k] = v on a dict
SetItem(d, k, v) == [f \in (DOMAIN d) \cup {k} |-> IF f = k THEN v ELSE d[f]]

NoDoc == [none |-> "none"]

(***************************************************************************)
(* The static metric documents.                                            *)
(***************************************************************************)
AdvertiserDoc(fname) ==
    CASE fname = "get_impressions" ->
            [metric |-> "impressions", value |-> "20000",
             description |-> "How many times your ad was shown", chart_data |-> "bar"]
      [] fname = "get_clicks" ->
            [metric |-> "clicks", value |-> "1000", ctr |-> "0.05",
             description |-> "How many clicks you got (CTR)", chart_data |-> "line"]
      [] fname = "get_conversions" ->
            [metric |-> "conversions", value |-> "50",
             description |-> "Sign-ups, purchases, or goals completed", chart_data |-> "funnel"]
      [] fname = "get_cpc" ->
            [metric |-> "cpc", value |-> "0.5", description |-> "Cost Per Click"]
      [] fname = "get_cpm" ->
            [metric |-> "cpm", value |-> "3.0", description |-> "Cost Per Mille"]
      [] fname = "get_cpa" ->
            [metric |-> "cpa", value |-> "10.0", description |-> "Cost Per Acquisition"]
      [] fname = "get_spend" ->
            [metric |-> "spend", value |-> "500.0",
             description |-> "Total money spent", chart_data |-> "doughnut"]
      [] fname = "get_roi" ->
            [metric |-> "roi", value |-> "2.5", roas |-> "3.0",
             description |-> "ROI / ROAS", chart_data |-> "gauge"]

PublisherDoc(fname) ==
    CASE fname = "get_impressions" ->
            [metric |-> "impressions", value |-> "10000",
             description |-> "How many times ads were shown", chart_data |-> "bar"]
      [] fname = "get_clicks" ->
            [metric |-> "clicks", value |-> "500", ctr |-> "0.05",
             description |-> "How many times ads were clicked (CTR)", chart_data |-> "line"]
      [] fname = "get_revenue" ->
            [metric |-> "revenue", daily |-> "100.0", monthly |-> "3000.0",
             site_wise |-> "site1:1500.0,site2:1500.0",
             description |-> "Revenue / Earnings (daily, monthly, site-wise)",
             chart_data |-> "area,bar"]
      [] fname = "get_rpm" ->
            [metric |-> "rpm", value |-> "5.0", ecpm |-> "4.8",
             description |-> "RPM / eCPM (revenue per 1000 impressions)", chart_data |-> "bar"]
      [] fname = "get_geography" ->
            [metric |-> "geography", breakdown |-> "US:60,EU:30,Other:10",
             device |-> "desktop:40,mobile:60",
             description |-> "Geography / Device breakdown", chart_data |-> "pie,doughnut"]

\* the dict display a handler function evaluates
HandlerLiteral(svc, fname) ==
    IF svc = "advertiser" THEN AdvertiserDoc(fname) ELSE PublisherDoc(fname)

(***************************************************************************)
(* Module-level configuration, as built at import time.                    *)
(***************************************************************************)
ADVERTISER_METRICS_INIT ==
    << <<"impressions", "How many times your ad was shown">>,
       <<"clicks", "How many clicks you got (CTR)">>,
       <<"conversions", "Sign-ups, purchases, or goals completed">>,
       <<"cpc", "Cost Per Click">>,
       <<"cpm", "Cost Per Mille">>,
       <<"cpa", "Cost Per Acquisition">>,
       <<"spend", "Total money spent">>,
       <<"roi", "ROI / ROAS">> >>

PUBLISHER_METRICS_INIT ==
    << <<"impressions", "How many times ads were shown">>,
       <<"clicks", "How many times ads were clicked (CTR)">>,
       <<"revenue", "Revenue / Earnings (daily, monthly, site-wise)">>,
       <<"rpm", "RPM / eCPM (revenue per 1000 impressions)">>,
       <<"geography", "Geography / Device breakdown">> >>

ADVERTISER_FUNCTION_MAP_INIT ==
    [impressions |-> "get_impressions", clicks |-> "get_clicks",
     conversions |-> "get_conversions", cpc |-> "get_cpc", cpm |-> "get_cpm",
     cpa |-> "get_cpa", spend |-> "get_spend", roi |-> "get_roi"]

\* the handlers of revenue and rpm exchanged
PUBLISHER_FUNCTION_MAP_SWAPPED ==
    [impressions |-> "get_impressions", clicks |-> "get_clicks",
     revenue |-> "get_rpm", rpm |-> "get_revenue", geography |-> "get_geography"]

PUBLISHER_FUNCTION_MAP_INIT ==
    [impressions |-> "get_impressions", clicks |-> "get_clicks",
     revenue |-> "get_revenue", rpm |-> "get_rpm", geography |-> "get_geography"]

MetricsInit == [svc \in Services |->
    IF svc = "advertiser" THEN ADVERTISER_METRICS_INIT ELSE PUBLISHER_METRICS_INIT]

FunctionMapInit == [svc \in Services |->
    IF svc = "advertiser" THEN ADVERTISER_FUNCTION_MAP_INIT ELSE PUBLISHER_FUNCTION_MAP_INIT]

\* list(METRICS.keys())
KeysOf(metrics) == [i \in 1..Len(metrics) |-> metrics[i][1]]

\* f"{key}: {desc}" for each entry; the pieces are kept apart
MetricTexts(metrics) == [i \in 1..Len(metrics) |-> <<metrics[i][1], ": ", metrics[i][2]>>]

\* model.encode(text): the embedding is a function of the text alone
Encode(text) == [embedding_of |-> text]

EncodeAll(texts) == [i \in 1..Len(texts) |-> Encode(texts[i])]

HandlerNames(svc) == {FunctionMapInit[svc][k] : k \in DOMAIN FunctionMapInit[svc]}

HandlerDocsInit == [svc \in Services |->
    [fname \in HandlerNames(svc) |-> HandlerLiteral(svc, fname)]]

(***************************************************************************)
(* Query texts and the string operations the handlers apply to them.       *)
(***************************************************************************)
Queries ==
    {"clicks", "CLICKS", "Cpc", "Revenue", " RPM ",
     "how many people clicked my ad", "",
     "analyze https://example.com clicks",
     "HTTPS://EXAMPLE.COM revenue",
     "see https://a.example, https://b.example",
     "http://[ clicks"}

LowerNoop(t) == t

\* str.lower()
Lower(t) ==
    CASE t = "CLICKS"  -> "clicks"
      [] t = "Cpc"     -> "cpc"
      [] t = "CPC"     -> "cpc"
      [] t = "CPM"     -> "cpm"
      [] t = "CPA"     -> "cpa"
      [] t = "ROI"     -> "roi"
      [] t = "Revenue" -> "revenue"
      [] t = "RPM"     -> "rpm"
      [] t = " RPM "   -> " rpm "
      [] t = "HTTPS://EXAMPLE.COM revenue" -> "https://example.com revenue"
      [] OTHER         -> t

\* str.strip()
Strip(t) ==
    CASE t = " RPM " -> "RPM"
      [] t = " rpm " -> "rpm"
      [] OTHER       -> t

\* the chunks of non-space characters of t that hold "://", each with the
\* characters before it (scheme) and after it up to the next space (rest)
SchemeChunks(t) ==
    CASE t = "analyze https://example.com clicks" ->
            <<[text |-> "https://example.com", scheme |-> "https", rest |-> "example.com"]>>
      [] t = "HTTPS://EXAMPLE.COM revenue" ->
            <<[text |-> "HTTPS://EXAMPLE.COM", scheme |-> "HTTPS", rest |-> "EXAMPLE.COM"]>>
      [] t = "see https://a.example, https://b.example" ->
            <<[text |-> "https://a.example,", scheme |-> "https", rest |-> "a.example,"],
              [text |-> "https://b.example", scheme |-> "https", rest |-> "b.example"]>>
      [] t = "http://[ clicks" ->
            <<[text |-> "http://[", scheme |-> "http", rest |-> "["]>>
      [] OTHER -> <<>>

\* r'https?://[^\s]+' without re.IGNORECASE
MatchesUrlPattern(chunk) == chunk.scheme \in {"http", "https"} /\ chunk.rest # ""

RECURSIVE FindAll(_)
FindAll(chunks) ==
    IF chunks = <<>> THEN <<>>
    ELSE (IF MatchesUrlPattern(chunks[1]) THEN <<chunks[1].text>> ELSE <<>>)
            \o FindAll(Tail(chunks))

\* re.findall(url_pattern, t)
FindUrls(t) == FindAll(SchemeChunks(t))

\* URLRequest(url=url): HttpUrl validation raises ValidationError
HttpUrlRejects(url) == url = "http://["

(***************************************************************************)
(* Similarity search.  The embedding model is external: an oracle gives    *)
(* the cosine similarity of the query to each catalog text, in hundredths. *)
(***************************************************************************)
Threshold == 30

HighLevels == {29, 30, 62}
LowLevel == 12

CatalogRows(svc) == Range(EncodeAll(MetricTexts(MetricsInit[svc])))

\* the first, the second or the last entry holds the maximum, alone or
\* together with the last entry; the others lie strictly below
SimOracles(svc) ==
    LET texts == EncodeAll(MetricTexts(MetricsInit[svc]))
    IN UNION {{[r \in CatalogRows(svc) |-> IF r \in {texts[a], texts[b]} THEN hi ELSE LowLevel] :
                    b \in {a, Len(texts)}, hi \in HighLevels} : a \in {1, 2, Len(texts)}}

(***************************************************************************)
(* call_gemini (publisher.py).                                             *)
(*                                                                         *)
(* A response text is a sequence of JSON tokens: the four brackets, "k"    *)
(* for a key with its colon and "1" for a scalar.  A Python value that is  *)
(* no dict is written as a record with the one field python_list or        *)
(* python_scalar.                                                          *)
(***************************************************************************)
Tokens == {"{", "}", "[", "]", "k", "1"}

\* str.rfind(tok), positions counted from 0 as in Python, -1 if absent
RFind(text, tok) ==
    LET at == {i \in 1..Len(text) : text[i] = tok}
    IN IF at = {} THEN -1 ELSE (CHOOSE i \in at : \A j \in at : j <= i) - 1

\* str.count(tok)
Count(text, tok) == Cardinality({i \in 1..Len(text) : text[i] = tok})

\* tok * n
Repeat(tok, n) == [i \in 1..n |-> tok]

\* str.endswith(tok)
EndsWith(text, tok) == Len(text) > 0 /\ text[Len(text)] = tok

\* the branch taken when the last '}' is after the last ']'
CutAtBrace(text) ==
    LET cut         == SubSeq(text, 1, RFind(text, "}") + 1)
        open_braces == Count(cut, "{") - Count(cut, "}")
    IN IF open_braces > 0 THEN cut \o Repeat("}", open_braces) ELSE cut

\* the branch taken when the last ']' is after the last '}' and not at position 0
CutAtBracket(text) ==
    LET cut           == SubSeq(text, 1, RFind(text, "]") + 1)
        open_brackets == Count(cut, "[") - Count(cut, "]")
        open_braces   == Count(cut, "{") - Count(cut, "}")
        closed        == IF open_brackets > 0 THEN cut \o Repeat("]", open_brackets) ELSE cut
    IN IF open_braces > 0 THEN closed \o Repeat("}", open_braces) ELSE closed

\* the repair of a text that ends with neither '}' nor ']'
Repair(text) ==
    IF EndsWith(text, "}") \/ EndsWith(text, "]")
    THEN text
    ELSE IF RFind(text, "}") > RFind(text, "]")
    THEN CutAtBrace(text)
    ELSE IF RFind(text, "]") > 0
    THEN CutAtBracket(text)
    ELSE text

\* json.loads: the position after the value that starts at position i, 0 if none
RECURSIVE ParseValue(_, _)
ParseValue(text, i) ==
    IF i > Len(text)
    THEN 0
    ELSE IF text[i] = "1"
    THEN i + 1
    ELSE IF text[i] = "["
    THEN IF i + 1 <= Len(text) /\ text[i + 1] = "]"
         THEN i + 2
         ELSE LET j == ParseValue(text, i + 1)
              IN IF j # 0 /\ j <= Len(text) /\ text[j] = "]" THEN j + 1 ELSE 0
    ELSE IF text[i] = "{"
    THEN IF i + 1 <= Len(text) /\ text[i + 1] = "}"
         THEN i + 2
         ELSE IF i + 1 <= Len(text) /\ text[i + 1] = "k"
         THEN LET j == ParseValue(text, i + 2)
              IN IF j # 0 /\ j <= Len(text) /\ text[j] = "}" THEN j + 1 ELSE 0
         ELSE 0
    ELSE 0

\* json.loads(text) returns
Parses(text) == ParseValue(text, 1) = Len(text) + 1

\* the Python value json.loads returns
JsonLoads(text) ==
    CASE text[1] = "{" -> [parsed |-> text]
      [] text[1] = "[" -> [python_list |-> text]
      [] OTHER -> [python_scalar |-> text]

\* isinstance(value, dict)
IsDict(value) == "python_list" \notin DOMAIN value /\ "python_scalar" \notin DOMAIN value

\* what generate_content does: it raises, or response.text is the text
GeminiObject == [raises |-> FALSE, text |-> <<"{", "k", "1", "}">>]

GeminiReplies ==
    {GeminiObject, [raises |-> TRUE, text |-> <<>>], [raises |-> FALSE, text |-> <<"[", "1", "]">>]}

CallGemini(model, reply) ==
    IF model = "None"
    THEN [error |-> "Gemini API not configured",
          details |-> "Missing API key or initialization failed"]
    ELSE IF reply.raises
    THEN [error |-> "Gemini API call failed", details |-> "exception"]
    ELSE IF reply.text = <<>>
    THEN [error |-> "Empty response from Gemini", details |-> "The API returned no content"]
    ELSE IF Parses(Repair(reply.text))
    THEN JsonLoads(Repair(reply.text))
    ELSE [error |-> "Invalid JSON response from Gemini", raw_output |-> Repair(reply.text),
          partial_analysis |-> TRUE]

\* the inputs a /query request reads: the similarities and the failure of
\* model.encode when the text is not a key, the network and the Gemini reply
\* when it holds a URL
NoOracle(svc) == [r \in CatalogRows(svc) |-> LowLevel]
NoNet == [rendered |-> TRUE, basic |-> TRUE]

QueryInputs(svc, q) ==
    IF svc = "publisher" /\ FindUrls(q) # <<>>
    THEN [oracle : {NoOracle(svc)}, encode_raises : {FALSE},
          net : [rendered : BOOLEAN, basic : BOOLEAN], reply : GeminiReplies]
    ELSE IF (IF svc = "publisher" THEN Strip(Lower(q)) ELSE Lower(q))
                \in Range(KeysOf(MetricsInit[svc]))
    THEN [oracle : {NoOracle(svc)}, encode_raises : {FALSE}, net : {NoNet}, reply : {GeminiObject}]
    ELSE [oracle : SimOracles(svc), encode_raises : {FALSE}, net : {NoNet}, reply : {GeminiObject}]
         \cup [oracle : {NoOracle(svc)}, encode_raises : {TRUE}, net : {NoNet}, reply : {GeminiObject}]

\* util.cos_sim(query_embedding, metric_embeddings)[0]
CosSim(oracle, embeddings) == [i \in 1..Len(embeddings) |-> oracle[embeddings[i]]]

ArgMaxLast(sims) ==
    CHOOSE i \in 1..Len(sims) :
        /\ \A j \in 1..Len(sims) : sims[j] <= sims[i]
        /\ \A j \in (i+1)..Len(sims) : sims[j] < sims[i]

\* torch.argmax: the index of the first maximal value
ArgMax(sims) ==
    CHOOSE i \in 1..Len(sims) :
        /\ \A j \in 1..Len(sims) : sims[j] <= sims[i]
        /\ \A j \in 1..(i-1) : sims[j] < sims[i]

BelowThresholdWrongCutoff(max_similarity) == max_similarity < 20

\* max_similarity < 0.3
BelowThreshold(max_similarity) == max_similarity < Threshold

ADVERTISER_NO_MATCH ==
    [error |-> <<"No matching advertiser metric found. Try asking about ",
                 <<"impressions", "clicks", "conversions", "CPC", "CPM", "CPA", "spend", "ROI">>,
                 ".">>]

PUBLISHER_NO_MATCH ==
    [error |-> <<"No matching publisher metric found. Try asking about ",
                 <<"impressions", "clicks", "revenue", "RPM", "geography">>,
                 ", or provide a website URL to analyze.">>]

NoMatchDoc(svc) == IF svc = "advertiser" THEN ADVERTISER_NO_MATCH ELSE PUBLISHER_NO_MATCH

DecorateNoTimestamp(result) ==
    SetItem(result, "chat_response",
            <<"Here's your ", result["metric"], " data with visualization">>)

\* result["chat_response"] = ...; result["timestamp"] = ...
Decorate(result) ==
    SetItem(SetItem(result, "chat_response",
                    <<"Here's your ", result["metric"], " data with visualization">>),
            "timestamp", "2025-09-26T10:30:00Z")

HandlerReturnsSharedDict == FALSE

\* a handler evaluates a dict display: every call returns a new dict
HandlerReturnsFreshDict == TRUE

\* the dict the handler returns on its next call, after the caller changed
\* the dict it got from this call
DocsAfterCall(docs, svc, fname, changed) ==
    IF HandlerReturnsFreshDict THEN docs ELSE [docs EXCEPT ![svc][fname] = changed]

(***************************************************************************)
(* Page fetching (publisher.py).  For one fetch of a URL the network       *)
(* decides whether the browser renderer and the plain GET succeed.         *)
(***************************************************************************)
NetOutcomes == [rendered : BOOLEAN, basic : BOOLEAN]

\* fetch_rendered_html(url): the page, or HTTPException(500)
FetchRendered(url, net) ==
    [ok |-> net.rendered, method |-> "playwright", fetches |-> << <<url, "playwright">> >>]

\* fetch_basic_html(url): the page, or HTTPException(500)
FetchBasic(url, net) ==
    [ok |-> net.basic, method |-> "fallback", fetches |-> << <<url, "fallback">> >>]

\* the renderer is tried a second time before the plain GET
FetchWithFallbackRetrying(available, url, net) ==
    IF available
    THEN IF FetchRendered(url, net).ok
         THEN FetchRendered(url, net)
         ELSE [FetchBasic(url, net) EXCEPT
                  !.fetches = FetchRendered(url, net).fetches \o FetchRendered(url, net).fetches
                                  \o FetchBasic(url, net).fetches]
    ELSE FetchBasic(url, net)

\* renderer when available, plain GET otherwise or after the renderer failed
FetchWithFallback(available, url, net) ==
    IF available
    THEN IF FetchRendered(url, net).ok
         THEN FetchRendered(url, net)
         ELSE [FetchBasic(url, net) EXCEPT
                  !.fetches = FetchRendered(url, net).fetches \o FetchBasic(url, net).fetches]
    ELSE FetchBasic(url, net)

\* renderer when available, plain GET otherwise; no second method
FetchNoFallback(available, url, net) ==
    IF available THEN FetchRendered(url, net) ELSE FetchBasic(url, net)

\* the fetches made for one URL at one place of a handler: the URL, the
\* methods in call order, and whether the page was obtained
Attempt(fetch) ==
    [url |-> fetch.fetches[1][1],
     methods |-> [i \in 1..Len(fetch.fetches) |-> fetch.fetches[i][2]],
     ok |-> fetch.ok]

\* analyze_site: {"url", "report"} or HTTPException(500)
AnalyzeSite(available, model, url, net, reply) ==
    LET fetch  == FetchWithFallback(available, url, net)
        report == SetItem(SetItem(SetItem(CallGemini(model, reply),
                      "fetch_method", fetch.method), "url", url), "service", "publisher")
    IN
    IF ~fetch.ok
    THEN [status |-> 500, doc |-> [detail |-> "Failed to fetch URL"], fetches |-> fetch.fetches]
    ELSE IF ~IsDict(CallGemini(model, reply))
    THEN [status |-> 500, doc |-> [detail |-> "Analysis failed: TypeError"],
          fetches |-> fetch.fetches]
    ELSE [status |-> 200, doc |-> [url |-> url, report |-> report], fetches |-> fetch.fetches]

(***************************************************************************)
(* The /query routers and the GET metric endpoints.                        *)
(*                                                                         *)
(* An outcome records the HTTP status, the document, the number of calls   *)
(* of model.encode and the handlers called, in call order.                 *)
(***************************************************************************)
Outcome(status, doc, encode_calls, handler_calls, fetches) ==
    [status |-> status, doc |-> doc, encode_calls |-> encode_calls,
     handler_calls |-> handler_calls, fetches |-> fetches]

\* model.encode raises and is called again before the request fails
EncodeFailureRetried == Outcome(500, [detail |-> "Internal Server Error"], 2, <<>>, <<>>)

\* model.encode raises: nothing catches it, the request fails with HTTP 500
EncodeFailure == Outcome(500, [detail |-> "Internal Server Error"], 1, <<>>, <<>>)

\* FUNCTION_MAP[key](): the dict the handler returns
CallHandler(docs, svc, fname) == docs[svc][fname]

\* handle_advertiser_query
AdvertiserQuery(keys, fmap, embeddings, docs, q, oracle, encode_raises) ==
    LET query   == Lower(q)
        sims    == CosSim(oracle, embeddings)
        idx     == ArgMax(sims)
        found   == keys[idx]
        routed(key) == Outcome(200, Decorate(CallHandler(docs, "advertiser", fmap[key])),
                               IF key = query /\ query \in Range(keys) THEN 0 ELSE 1,
                               <<fmap[key]>>, <<>>)
    IN
    IF query \in Range(keys)
    THEN routed(query)
    ELSE IF encode_raises
         THEN EncodeFailure
         ELSE IF BelowThreshold(sims[idx])
              THEN Outcome(200, NoMatchDoc("advertiser"), 1, <<>>, <<>>)
              ELSE routed(found)

\* handle_publisher_query
PublisherQuery(keys, fmap, embeddings, docs, available, model, q, oracle, encode_raises, net, reply) ==
    LET query   == Strip(Lower(q))
        urls    == FindUrls(q)
        site    == AnalyzeSite(available, model, urls[1], net, reply)
        sims    == CosSim(oracle, embeddings)
        idx     == ArgMax(sims)
        found   == keys[idx]
        result(key) == Decorate(CallHandler(docs, "publisher", fmap[key]))
    IN
    IF urls # <<>>
    THEN IF HttpUrlRejects(urls[1])
         THEN Outcome(200, [error |-> <<"Website analysis failed: ", "validation error">>],
                      0, <<>>, <<>>)
         ELSE IF site.status = 200
         THEN Outcome(200, [type |-> "website_analysis", query |-> q, url |-> urls[1],
                            analysis |-> site.doc.report], 0, <<>>, site.fetches)
         ELSE Outcome(200, [error |-> <<"Website analysis failed: ", site.doc.detail>>],
                      0, <<>>, site.fetches)
    ELSE IF query \in Range(keys)
    THEN Outcome(200, Merge([type |-> "publisher_metric", query |-> q], result(query)),
                 0, <<fmap[query]>>, <<>>)
    ELSE IF encode_raises
    THEN EncodeFailure
    ELSE IF BelowThreshold(sims[idx])
    THEN Outcome(200, NoMatchDoc("publisher"), 1, <<>>, <<>>)
    ELSE Outcome(200, Merge([type |-> "publisher_metric", query |-> q,
                             matched_metric |-> found], result(found)),
                 1, <<fmap[found]>>, <<>>)

\* the decorated dict of the handler a /query request called, if any
Decorated(docs, svc, out) ==
    IF out.handler_calls = <<>> THEN NoDoc
    ELSE Decorate(CallHandler(docs, svc, out.handler_calls[1]))

DocsAfterQuery(docs, svc, out) ==
    IF out.handler_calls = <<>> THEN docs
    ELSE DocsAfterCall(docs, svc, out.handler_calls[1], Decorated(docs, svc, out))

Reverse(seq) == [i \in 1..Len(seq) |-> seq[Len(seq) + 1 - i]]

CatalogAfterRequestSortedKeys(catalog) ==
    [catalog EXCEPT !.metric_keys = [svc \in Services |-> Reverse(catalog.metric_keys[svc])]]

\* the handlers only read METRICS, FUNCTION_MAP, metric_keys and metric_embeddings
CatalogAfterRequest(catalog) == catalog

Catalog ==
    [METRICS |-> METRICS, FUNCTION_MAP |-> FUNCTION_MAP,
     metric_keys |-> metric_keys, metric_embeddings |-> metric_embeddings]

CatalogUnchanged ==
    LET after == CatalogAfterRequest(Catalog)
    IN /\ METRICS' = after.METRICS
       /\ FUNCTION_MAP' = after.FUNCTION_MAP
       /\ metric_keys' = after.metric_keys
       /\ metric_embeddings' = after.metric_embeddings
       /\ UNCHANGED <<playwright_available, gemini_model, GEMINI_AVAILABLE, exa_agent,
                      image_gen_service, keyword_analysis_service, rag_engine>>

DecoratedAfterQuery(svc, out) ==
    IF out.handler_calls = <<>> THEN <<"none", "none">> ELSE <<svc, out.handler_calls[1]>>

NoLocals == [none |-> "none"]

NoRequest == [op |-> "none", svc |-> "none", q |-> "", key |-> "none"]

\* KeywordAnalysisService.__init__ before _initialize_services runs
KeywordServiceNew ==
    [exa_client |-> "None", gemini_model |-> "None", is_initialized |-> FALSE, stage |-> "new"]

\* RAGEngine.__init__ before _initialize_rag_components runs
RagEngineNew ==
    [vectorstore |-> "None", llm |-> "None", embeddings |-> "None", is_initialized |-> FALSE,
     stage |-> "new"]

InitConfig ==
    /\ METRICS = MetricsInit
    /\ FUNCTION_MAP = FunctionMapInit
    /\ metric_keys = [svc \in Services |-> KeysOf(MetricsInit[svc])]
    /\ metric_embeddings = [svc \in Services |-> EncodeAll(MetricTexts(MetricsInit[svc]))]
    /\ handler_docs = HandlerDocsInit
    /\ playwright_available \in BOOLEAN
    /\ gemini_model \in {"configured", "None"}
    /\ GEMINI_AVAILABLE \in BOOLEAN
    /\ exa_agent \in [exa_client : {"configured", "None"}, gemini_model : {"configured", "None"}]
    /\ image_gen_service \in [client : {"configured", "None"}]
    /\ keyword_analysis_service = KeywordServiceNew
    /\ rag_engine = RagEngineNew

Init ==
    /\ InitConfig
    /\ decorated = <<"none", "none">>
    /\ pc = "idle"
    /\ locals = NoLocals
    /\ req = NoRequest
    /\ resp = Outcome(0, NoDoc, 0, <<>>, <<>>)

\* GET /<svc>/<metric>
GetMetric ==
    \E svc \in Services : \E key \in DOMAIN FUNCTION_MAP[svc] :
        /\ req' = [op |-> "get", svc |-> svc, q |-> "", key |-> key]
        /\ resp' = Outcome(200, CallHandler(handler_docs, svc, FUNCTION_MAP[svc][key]),
                           0, <<FUNCTION_MAP[svc][key]>>, <<>>)
        /\ CatalogUnchanged
        /\ UNCHANGED <<handler_docs, decorated, pc, locals>>

\* POST /advertiser/query
HandleAdvertiserQuery ==
    \E q \in Queries : \E in \in QueryInputs("advertiser", q) :
        LET out == AdvertiserQuery(metric_keys["advertiser"], FUNCTION_MAP["advertiser"],
                                   metric_embeddings["advertiser"], handler_docs,
                                   q, in.oracle, in.encode_raises)
        IN
        /\ req' = [op |-> "query", svc |-> "advertiser", q |-> q, oracle |-> in.oracle,
                   encode_raises |-> in.encode_raises, net |-> in.net, reply |-> in.reply]
        /\ resp' = out
        /\ handler_docs' = DocsAfterQuery(handler_docs, "advertiser", out)
        /\ decorated' = DecoratedAfterQuery("advertiser", out)
        /\ CatalogUnchanged
        /\ UNCHANGED <<pc, locals>>

\* POST /publisher/query
HandlePublisherQuery ==
    \E q \in Queries : \E in \in QueryInputs("publisher", q) :
        LET out == PublisherQuery(metric_keys["publisher"], FUNCTION_MAP["publisher"],
                                  metric_embeddings["publisher"], handler_docs,
                                  playwright_available, gemini_model,
                                  q, in.oracle, in.encode_raises, in.net, in.reply)
        IN
        /\ req' = [op |-> "query", svc |-> "publisher", q |-> q, oracle |-> in.oracle,
                   encode_raises |-> in.encode_raises, net |-> in.net, reply |-> in.reply]
        /\ resp' = out
        /\ handler_docs' = DocsAfterQuery(handler_docs, "publisher", out)
        /\ decorated' = DecoratedAfterQuery("publisher", out)
        /\ CatalogUnchanged
        /\ UNCHANGED <<pc, locals>>

Next == GetMetric \/ HandleAdvertiserQuery \/ HandlePublisherQuery

\* the routers read neither the Exa agent nor the image service nor
\* GEMINI_AVAILABLE: the startup at which these are configured
InitRouter ==
    /\ Init
    /\ GEMINI_AVAILABLE
    /\ exa_agent = [exa_client |-> "configured", gemini_model |-> "configured"]
    /\ image_gen_service = [client |-> "configured"]

Spec == InitRouter /\ [][Next]_vars

(***************************************************************************)
(* Properties of the routers.                                              *)
(***************************************************************************)
\* texts and the catalog key they equal when case is ignored
EqualIgnoringCase ==
    {<<"clicks", "clicks">>, <<"CLICKS", "clicks">>, <<"Cpc", "cpc">>, <<"Revenue", "revenue">>}

\* texts the exact-match step of a service accepts
ExactTexts(svc) ==
    IF svc = "advertiser" THEN {"clicks", "CLICKS", "Cpc"}
    ELSE {"clicks", "CLICKS", "Revenue", " RPM "}

InitKeys(svc) == Range(KeysOf(MetricsInit[svc]))

HasPayload(doc, payload) ==
    \A f \in DOMAIN payload : f \in DOMAIN doc /\ doc[f] = payload[f]

MaxSimilarity(oracle) ==
    CHOOSE m \in {oracle[r] : r \in DOMAIN oracle} : \A r \in DOMAIN oracle : oracle[r] <= m

\* the earliest-inserted catalog key among those of maximal similarity
FirstBestKey(svc, oracle) ==
    LET rows == EncodeAll(MetricTexts(MetricsInit[svc]))
        best == {i \in 1..Len(rows) : oracle[rows[i]] = MaxSimilarity(oracle)}
        i    == CHOOSE x \in best : \A y \in best : x <= y
    IN MetricsInit[svc][i][1]

\* a /query request that reached the similarity search and got its embedding
SemanticRequest ==
    /\ req.op = "query"
    /\ ~(req.svc = "publisher" /\ FindUrls(req.q) # <<>>)
    /\ req.q \notin ExactTexts(req.svc)
    /\ ~req.encode_raises

\* C1: a /query text without a URL that equals a catalog key, case ignored,
\* is answered with that key's handler's document, every field unchanged, and
\* model.encode is never called in that request.
ExactMatchBypassesEmbedding ==
    \A pair \in EqualIgnoringCase :
        (req.op = "query" /\ req.q = pair[1] /\ pair[2] \in InitKeys(req.svc))
        => /\ resp.status = 200
           /\ resp.encode_calls = 0
           /\ resp.handler_calls = <<FunctionMapInit[req.svc][pair[2]]>>
           /\ HasPayload(resp.doc, HandlerLiteral(req.svc, FunctionMapInit[req.svc][pair[2]]))

ExactMatchWitness ==
    /\ req.op = "query" /\ req.svc = "publisher" /\ req.q = "CLICKS"
    /\ resp.handler_calls = <<"get_clicks">> /\ resp.encode_calls = 0

\* C2: a query that is not an exact key and whose maximal similarity is at
\* least 0.3 calls exactly one handler, the one of the entry of maximal
\* similarity, the earliest-inserted one among ties.
SemanticMatchRoutesToFirstBest ==
    (SemanticRequest /\ MaxSimilarity(req.oracle) >= Threshold)
    => /\ resp.status = 200
       /\ resp.handler_calls = <<FunctionMapInit[req.svc][FirstBestKey(req.svc, req.oracle)]>>
       /\ HasPayload(resp.doc, HandlerLiteral(req.svc,
                         FunctionMapInit[req.svc][FirstBestKey(req.svc, req.oracle)]))

SemanticTieWitness ==
    /\ SemanticRequest
    /\ MaxSimilarity(req.oracle) = Threshold
    /\ Cardinality({r \in DOMAIN req.oracle : req.oracle[r] = Threshold}) = 2
    /\ resp.handler_calls = <<"get_clicks">>

\* C3: a query whose maximal similarity is below 0.3 calls no handler and is
\* answered with the fixed no-match document, whose listed names are exactly
\* the keys of the service's metric catalog.
NoMatchListsCatalogKeys ==
    (SemanticRequest /\ MaxSimilarity(req.oracle) < Threshold)
    => /\ resp.status = 200
       /\ resp.handler_calls = <<>>
       /\ resp.doc = NoMatchDoc(req.svc)
       /\ Len(resp.doc.error[2]) = Len(METRICS[req.svc])
       /\ {Lower(name) : name \in Range(resp.doc.error[2])} = Range(KeysOf(METRICS[req.svc]))

NoMatchWitness ==
    /\ SemanticRequest /\ req.svc = "advertiser"
    /\ MaxSimilarity(req.oracle) = Threshold - 1
    /\ DOMAIN resp.doc = {"error"}

\* C4: every successfully routed /query response holds every field of the
\* matched handler's document with the handler's value, the confirmation
\* string naming the document's metric, and the fixed timestamp.
RoutedResponseIsDecoratedPayload ==
    (req.op = "query" /\ resp.status = 200 /\ resp.handler_calls # <<>>)
    => LET payload == HandlerLiteral(req.svc, resp.handler_calls[1])
       IN /\ HasPayload(resp.doc, payload)
          /\ "chat_response" \in DOMAIN resp.doc
          /\ resp.doc["chat_response"] =
                 <<"Here's your ", payload["metric"], " data with visualization">>
          /\ "timestamp" \in DOMAIN resp.doc
          /\ resp.doc["timestamp"] = "2025-09-26T10:30:00Z"

RoutedResponseWitness ==
    /\ req.op = "query" /\ req.svc = "publisher" /\ resp.encode_calls = 1
    /\ resp.handler_calls = <<"get_geography">>
    /\ "matched_metric" \in DOMAIN resp.doc

\* C8: a GET of a static metric returns the same document after any sequence
\* of requests, without the chat_response and timestamp fields /query adds;
\* a /query result holds the handler's fields and those two, nothing left
\* over from an earlier request.
StaticMetricIdempotent ==
    /\ req.op = "get"
       => resp.doc = HandlerLiteral(req.svc, FunctionMapInit[req.svc][req.key])
    /\ (req.op = "query" /\ resp.handler_calls # <<>>)
       => LET payload == HandlerLiteral(req.svc, resp.handler_calls[1])
          IN /\ HasPayload(resp.doc, payload)
             /\ (DOMAIN resp.doc) \ {"type", "query", "matched_metric"}
                    = (DOMAIN payload) \cup {"chat_response", "timestamp"}

GetAfterQueryWitness ==
    /\ req.op = "get" /\ req.svc = "advertiser" /\ req.key = "cpc"
    /\ decorated = <<"advertiser", "get_cpc">>
    /\ resp.doc = [metric |-> "cpc", value |-> "0.5", description |-> "Cost Per Click"]

\* the outcome of the request, computed on the start-up configuration
OutcomeAtStartup ==
    IF req.op = "get"
    THEN Outcome(200, HandlerLiteral(req.svc, FunctionMapInit[req.svc][req.key]), 0,
                 <<FunctionMapInit[req.svc][req.key]>>, <<>>)
    ELSE IF req.svc = "advertiser"
    THEN AdvertiserQuery(KeysOf(MetricsInit["advertiser"]), FunctionMapInit["advertiser"],
                         EncodeAll(MetricTexts(MetricsInit["advertiser"])), HandlerDocsInit,
                         req.q, req.oracle, req.encode_raises)
    ELSE PublisherQuery(KeysOf(MetricsInit["publisher"]), FunctionMapInit["publisher"],
                        EncodeAll(MetricTexts(MetricsInit["publisher"])), HandlerDocsInit,
                        playwright_available, gemini_model,
                        req.q, req.oracle, req.encode_raises, req.net, req.reply)

\* C9: no request changes the metric catalog, the key-to-handler map or the
\* cached catalog embeddings, and the outcome of a request is the one it has
\* on the start-up configuration, whatever ran before.
CatalogNeverChanges ==
    /\ METRICS = MetricsInit
    /\ FUNCTION_MAP = FunctionMapInit
    /\ metric_keys = [svc \in Services |-> KeysOf(MetricsInit[svc])]
    /\ metric_embeddings = [svc \in Services |-> EncodeAll(MetricTexts(MetricsInit[svc]))]
    /\ req.op # "none" => resp = OutcomeAtStartup

FailedRequestWitness ==
    /\ req.op = "query" /\ req.encode_raises /\ resp.status = 500
    /\ metric_keys["advertiser"] = KeysOf(ADVERTISER_METRICS_INIT)

(***************************************************************************)
(* Publisher site comparison (publisher.py).                               *)
(*                                                                         *)
(* A page is its counts; script_words and script_ads are the words and ad  *)
(* matches inside script and style elements, which sanitize_html removes.  *)
(* ad_density, ctr, revenue and rpm are in hundredths.                     *)
(***************************************************************************)
MaxCompetitors == 2
MaxExaResults == 3

Urls == {"https://a.example/", "https://b.example/"}

Page(url) ==
    IF url = "https://a.example/"
    THEN [len |-> 4000, words |-> 800, script_words |-> 100, ad_count |-> 5, script_ads |-> 1,
          title_length |-> 42, meta_desc_length |-> 130, link_count |-> 30, image_count |-> 12]
    ELSE [len |-> 900, words |-> 120, script_words |-> 0, ad_count |-> 0, script_ads |-> 0,
          title_length |-> 0, meta_desc_length |-> 0, link_count |-> 2, image_count |-> 0]

\* the lists of at most n URLs
UrlLists(n) == UNION {[1..k -> Urls] : k \in 0..n}

Min(a, b) == IF a <= b THEN a ELSE b

\* a / b rounded to the nearest integer
RoundDiv(a, b) == (2 * a + b) \div (2 * b)

\* html[:k] of a list
Take(seq, k) == SubSeq(seq, 1, Min(k, Len(seq)))

SanitizeTruncateAt == 50000

\* sanitize_html: script and style contents removed, at most 50000 characters
Sanitize(html) ==
    [html EXCEPT !.len = Min(html.len, SanitizeTruncateAt),
                 !.words = html.words - html.script_words,
                 !.ad_count = html.ad_count - html.script_ads,
                 !.script_words = 0, !.script_ads = 0]

\* extract_metrics; its operations are total on a string, so the except
\* branch that returns {} is not taken
ExtractMetrics(html) ==
    LET impressions == IF html.words > 500 THEN 1000000 ELSE 500000
        ctr         == IF html.ad_count > 0 THEN 100 ELSE 50
        revenue     == (impressions * ctr * 5) \div 100000
    IN [word_count |-> html.words,
        ad_density |-> Min(RoundDiv(html.ad_count * 10000, IF html.len > 1 THEN html.len ELSE 1), 10000),
        ad_count |-> html.ad_count,
        title_length |-> html.title_length,
        meta_desc_length |-> html.meta_desc_length,
        link_count |-> html.link_count,
        image_count |-> html.image_count,
        impressions |-> impressions,
        ctr |-> ctr,
        revenue |-> revenue,
        rpm |-> RoundDiv(revenue * 1000, impressions),
        geography |-> [US |-> 70, International |-> 30],
        device |-> [Mobile |-> 50, Desktop |-> 50]]

\* the placeholder competitive_analysis_multiple adds for a failed competitor
FailedCompetitor(comp_url) ==
    [url |-> comp_url, error |-> "Analysis failed: Failed to fetch URL",
     word_count |-> 0, ad_count |-> 0, impressions |-> 0, ctr |-> 0, revenue |-> 0,
     rpm |-> 0, link_count |-> 0, image_count |-> 0,
     geography |-> [US |-> 0, International |-> 0],
     device |-> [Mobile |-> 0, Desktop |-> 0]]

\* d.get(k, 0)
Get(d, k) == IF k \in DOMAIN d THEN d[k] ELSE 0

\* the bar chart both comparison endpoints build
ImpressionsRevenueChart(url, metrics, competitors) ==
    [labels |-> <<url>> \o [i \in 1..Len(competitors) |-> competitors[i]["url"]],
     impressions |-> <<Get(metrics, "impressions")>>
                        \o [i \in 1..Len(competitors) |-> Get(competitors[i], "impressions")],
     revenue |-> <<Get(metrics, "revenue")>>
                        \o [i \in 1..Len(competitors) |-> Get(competitors[i], "revenue")]]

\* HTTPException(500) of the endpoint's outer except
Failure(detail) == Outcome(500, [detail |-> detail], 0, <<>>, <<>>)

SiteFrame ==
    /\ CatalogUnchanged
    /\ UNCHANGED <<handler_docs, decorated>>

(***************************************************************************)
(* POST /publisher/competitive-analysis-multiple, one action per await.    *)
(***************************************************************************)
\* the request arrives; fetch_method is set from playwright_available
MultiStart ==
    \E my_website \in Urls : \E competitor_urls \in UrlLists(MaxCompetitors) :
        /\ pc = "idle"
        /\ pc' = "multi_primary"
        /\ req' = [op |-> "competitive-analysis-multiple", svc |-> "publisher",
                   my_website |-> my_website, competitor_urls |-> competitor_urls]
        /\ locals' = [fetch_method |-> IF playwright_available THEN "playwright" ELSE "fallback",
                      my_metrics |-> NoDoc, competitors |-> <<>>, failed |-> {},
                      fetches |-> <<>>, attempts |-> <<>>]
        /\ UNCHANGED resp
        /\ SiteFrame

\* step 1: the user's own site
MultiPrimary ==
    \E net \in NetOutcomes :
        LET fetch == FetchWithFallback(playwright_available, req.my_website, net)
        IN
        /\ pc = "multi_primary"
        /\ IF fetch.ok
           THEN /\ pc' = "multi_competitors"
                /\ locals' = [locals EXCEPT
                       !.fetch_method = IF fetch.method = "fallback" THEN "fallback" ELSE @,
                       !.my_metrics = ExtractMetrics(Sanitize(Page(req.my_website))),
                       !.fetches = @ \o fetch.fetches,
                       !.attempts = Append(@, Attempt(fetch))]
                /\ UNCHANGED resp
           ELSE /\ pc' = "done"
                /\ locals' = [locals EXCEPT !.fetches = @ \o fetch.fetches,
                                              !.attempts = Append(@, Attempt(fetch))]
                /\ resp' = Failure("Multi-competitive analysis failed: Failed to fetch URL")
        /\ UNCHANGED req
        /\ SiteFrame

AppendCompetitorDropped(competitors, comp_url) == competitors

\* the except branch of the competitor loop
AppendFailedCompetitor(competitors, comp_url) ==
    Append(competitors, FailedCompetitor(comp_url))

\* step 2: one iteration of the loop over competitor_urls
MultiCompetitor ==
    \E net \in NetOutcomes :
        LET i        == Len(locals.competitors) + 1
            comp_url == req.competitor_urls[i]
            fetch    == FetchWithFallback(playwright_available, comp_url, net)
        IN
        /\ pc = "multi_competitors"
        /\ Len(locals.competitors) < Len(req.competitor_urls)
        /\ locals' = [locals EXCEPT
               !.competitors =
                   IF fetch.ok
                   THEN Append(@, SetItem(ExtractMetrics(Sanitize(Page(comp_url))), "url", comp_url))
                   ELSE AppendFailedCompetitor(@, comp_url),
               !.failed = IF fetch.ok THEN @ ELSE @ \cup {i},
               !.fetches = @ \o fetch.fetches,
               !.attempts = Append(@, Attempt(fetch))]
        /\ UNCHANGED <<pc, req, resp>>
        /\ SiteFrame

\* steps 3 to 5: the insights of Gemini, the charts and the response
MultiRespond ==
    \E reply \in GeminiReplies :
        /\ pc = "multi_competitors"
        /\ Len(locals.competitors) = Len(req.competitor_urls)
        /\ pc' = "done"
        /\ resp' = Outcome(200,
               [service |-> "competitive_analysis_multiple",
                my_website |-> req.my_website,
                competitor_urls |-> req.competitor_urls,
                fetch_method |-> locals.fetch_method,
                comparison |-> [input_site |-> Merge([url |-> req.my_website], locals.my_metrics),
                                competitors |-> locals.competitors],
                insights |-> CallGemini(gemini_model, reply),
                chart_data |-> ImpressionsRevenueChart(req.my_website, locals.my_metrics,
                                                       locals.competitors)],
               0, <<>>, locals.fetches)
        /\ UNCHANGED <<req, locals>>
        /\ SiteFrame

(***************************************************************************)
(* POST /publisher/competitive-analysis, one action per await.             *)
(***************************************************************************)
ExaSliceTrending == 6
CompetitorSlice == 3

\* what the Exa searches and the Gemini call of an agent method do: the
\* first search returns results or raises, the second returns or raises,
\* generate_content returns a text or raises
ExaOutcomes ==
    {[search |-> "ok", results |-> results, gemini |-> gemini] :
         results \in UrlLists(MaxExaResults), gemini \in {"text", "raises"}}
    \cup {[search |-> search, results |-> <<>>, gemini |-> "text"] :
             search \in {"first_raises", "second_raises"}}

\* an HTTPException leaving an agent method, with the upstream calls made
AgentRaises(status, detail, upstream) ==
    [status |-> status, doc |-> [detail |-> detail], upstream |-> upstream]

\* ExaAgent._check_services
CheckServices(agent) ==
    IF agent.exa_client = "None"
    THEN AgentRaises(503, "Exa API not configured. Please set EXA_API_KEY environment variable.",
                     <<>>)
    ELSE IF agent.gemini_model = "None"
    THEN AgentRaises(503,
                     "Gemini API not configured. Please set GEMINI_API_KEY environment variable.",
                     <<>>)
    ELSE [status |-> 200, doc |-> NoDoc, upstream |-> <<>>]

\* the try/except around generate_content in both agent methods
AgentInsights(gemini) ==
    IF gemini = "text"
    THEN "ai_response.text"
    ELSE [error |-> "AI analysis temporarily unavailable", raw_data_available |-> TRUE]

\* the body both agent methods share: two searches, one generation, the
\* document built by the method
AgentMethod(agent, exa, failed_detail, doc) ==
    IF CheckServices(agent).status # 200
    THEN CheckServices(agent)
    ELSE IF exa.search = "first_raises"
    THEN AgentRaises(500, failed_detail, <<"exa.search_and_contents">>)
    ELSE IF exa.search = "second_raises"
    THEN AgentRaises(500, failed_detail, <<"exa.search_and_contents", "exa.search_and_contents">>)
    ELSE [status |-> 200, doc |-> doc,
          upstream |-> <<"exa.search_and_contents", "exa.search_and_contents",
                         "gemini.generate_content">>]

\* ExaAgent.publisher_content_strategy
PublisherContentStrategy(agent, exa) ==
    AgentMethod(agent, exa, "Content strategy analysis failed",
        [service |-> "publisher",
         trending_content |-> [i \in 1..Min(Len(exa.results), ExaSliceTrending) |->
                                  [url |-> exa.results[i], snippet |-> "text[:200]"]],
         ai_insights |-> AgentInsights(exa.gemini),
         total_results |-> Len(exa.results)])

\* ExaAgent.advertiser_competitive_intelligence
AdvertiserCompetitiveIntelligence(agent, exa) ==
    AgentMethod(agent, exa, "Competitive intelligence analysis failed",
        [service |-> "advertiser",
         competitor_analysis |-> [i \in 1..Min(Len(exa.results), 5) |->
                                     [url |-> exa.results[i], snippet |-> "text[:200]"]],
         ai_insights |-> AgentInsights(exa.gemini),
         total_results |-> Len(exa.results)])

CAStart ==
    \E url \in Urls :
        /\ pc = "idle"
        /\ pc' = "ca_primary"
        /\ req' = [op |-> "competitive-analysis", svc |-> "publisher", url |-> url]
        /\ locals' = [fetch_method |-> "none", input_metrics |-> NoDoc, discovered |-> <<>>,
                      index |-> 0, competitors |-> <<>>, failed |-> {}, fetches |-> <<>>,
                      attempts |-> <<>>, upstream |-> <<>>]
        /\ UNCHANGED resp
        /\ SiteFrame

\* step 1: the input site
CAPrimary ==
    \E net \in NetOutcomes :
        LET fetch == FetchWithFallback(playwright_available, req.url, net)
        IN
        /\ pc = "ca_primary"
        /\ IF fetch.ok
           THEN /\ pc' = "ca_exa"
                /\ locals' = [locals EXCEPT
                       !.fetch_method = fetch.method,
                       !.input_metrics = ExtractMetrics(Sanitize(Page(req.url))),
                       !.fetches = @ \o fetch.fetches,
                       !.attempts = Append(@, Attempt(fetch))]
                /\ UNCHANGED resp
           ELSE /\ pc' = "done"
                /\ locals' = [locals EXCEPT !.fetches = @ \o fetch.fetches,
                                              !.attempts = Append(@, Attempt(fetch))]
                /\ resp' = Failure("Competitive analysis failed: Failed to fetch URL")
        /\ UNCHANGED req
        /\ SiteFrame

\* step 2: the competitors Exa finds
CAExa ==
    \E exa \in ExaOutcomes :
        LET competitor_results == PublisherContentStrategy(exa_agent, exa)
            trending_content   == competitor_results.doc.trending_content
        IN
        /\ pc = "ca_exa"
        /\ IF competitor_results.status = 200
           THEN /\ pc' = "ca_competitors"
                /\ locals' = [locals EXCEPT
                       !.discovered = [i \in 1..Min(Len(trending_content), CompetitorSlice) |->
                                          trending_content[i].url],
                       !.upstream = @ \o competitor_results.upstream]
                /\ UNCHANGED resp
           ELSE /\ pc' = "done"
                /\ resp' = Failure(<<"Competitive analysis failed", competitor_results.doc.detail>>)
                /\ locals' = [locals EXCEPT !.upstream = @ \o competitor_results.upstream]
        /\ UNCHANGED req
        /\ SiteFrame

\* one iteration of the loop over the discovered competitors: a competitor
\* whose fetch fails is logged and skipped
CACompetitor ==
    \E net \in NetOutcomes :
        LET i        == locals.index + 1
            comp_url == locals.discovered[i]
            fetch    == FetchNoFallback(playwright_available, comp_url, net)
        IN
        /\ pc = "ca_competitors"
        /\ locals.index < Len(locals.discovered)
        /\ locals' = [locals EXCEPT
               !.index = i,
               !.competitors =
                   IF fetch.ok
                   THEN Append(@, SetItem(ExtractMetrics(Page(comp_url)), "url", comp_url))
                   ELSE @,
               !.failed = IF fetch.ok THEN @ ELSE @ \cup {i},
               !.fetches = @ \o fetch.fetches,
               !.attempts = Append(@, Attempt(fetch))]
        /\ UNCHANGED <<pc, req, resp>>
        /\ SiteFrame

\* steps 3 to 5: the insights of Gemini, the charts and the response
CARespond ==
    \E reply \in GeminiReplies :
        /\ pc = "ca_competitors"
        /\ locals.index = Len(locals.discovered)
        /\ pc' = "done"
        /\ resp' = Outcome(200,
               [service |-> "competitive_analysis",
                url |-> req.url,
                fetch_method |-> locals.fetch_method,
                comparison |-> [input_site |-> Merge([url |-> req.url], locals.input_metrics),
                                competitors |-> locals.competitors],
                insights |-> CallGemini(gemini_model, reply),
                chart_data |-> ImpressionsRevenueChart(req.url, locals.input_metrics,
                                                       locals.competitors)],
               0, <<>>, locals.fetches)
        /\ UNCHANGED <<req, locals>>
        /\ SiteFrame

NextSites ==
    \/ MultiStart \/ MultiPrimary \/ MultiCompetitor \/ MultiRespond
    \/ CAStart \/ CAPrimary \/ CAExa \/ CACompetitor \/ CARespond

SpecSites == Init /\ [][NextSites]_vars

NumericFields ==
    {"word_count", "ad_count", "impressions", "ctr", "revenue", "rpm", "link_count",
     "image_count", "ad_density", "title_length", "meta_desc_length"}

ZeroValued(entry) ==
    /\ \A f \in NumericFields \cap DOMAIN entry : entry[f] = 0
    /\ \A f \in {"geography", "device"} \cap DOMAIN entry :
           \A k \in DOMAIN entry[f] : entry[f][k] = 0

MultiDone == pc = "done" /\ req.op = "competitive-analysis-multiple"

\* C5: competitive-analysis-multiple, once the user's own site is fetched,
\* answers with a competitors array of the length and order of the requested
\* list whatever competitor fetches fail, and every failed entry carries an
\* error field and zero-valued numeric fields.
MultiKeepsFailedCompetitors ==
    /\ (MultiDone /\ resp.status # 200) => locals.competitors = <<>> /\ locals.my_metrics = NoDoc
    /\ (MultiDone /\ resp.status = 200) =>
         LET competitors == resp.doc.comparison.competitors
         IN /\ Len(competitors) = Len(req.competitor_urls)
            /\ \A i \in 1..Len(competitors) :
                  /\ competitors[i]["url"] = req.competitor_urls[i]
                  /\ i \in locals.failed
                       => "error" \in DOMAIN competitors[i] /\ ZeroValued(competitors[i])
                  /\ i \notin locals.failed
                       => "error" \notin DOMAIN competitors[i] /\ competitors[i]["impressions"] > 0

MultiFailedCompetitorWitness ==
    /\ MultiDone /\ resp.status = 200
    /\ Len(req.competitor_urls) = 2
    /\ locals.failed = {1}
    /\ "error" \in DOMAIN resp.doc.comparison.competitors[1]

CADone == pc = "done" /\ req.op = "competitive-analysis"

\* C7: in competitive-analysis every discovered competitor is present in the
\* competitors list of the response, one whose fetch failed with an error
\* marker and zero-valued fields.
CAKeepsFailedCompetitors ==
    (CADone /\ resp.status = 200) =>
        LET competitors == resp.doc.comparison.competitors
        IN /\ Len(competitors) = Len(locals.discovered)
           /\ \A i \in 1..Len(competitors) :
                 /\ competitors[i]["url"] = locals.discovered[i]
                 /\ i \in locals.failed
                      => "error" \in DOMAIN competitors[i] /\ ZeroValued(competitors[i])

(***************************************************************************)
(* POST /advertiser/competitive-intelligence (advertiser.py).              *)
(*                                                                         *)
(* seo_score, performance_score and image_alt_text_ratio are in tenths.    *)
(***************************************************************************)
None == [none |-> "none"]

\* my_website and competitor_website: absent, a page, or a text urlparse rejects
SiteArgs == {"None", "https://a.example/", "https://b.example/", "https://c.example/",
             "http://["}

\* urllib.parse.urlparse raises ValueError("Invalid IPv6 URL") on an unmatched bracket
UrlParseRaises(url) == url = "http://["

Netloc(url) ==
    CASE url = "https://a.example/" -> "a.example"
      [] url = "https://b.example/" -> "b.example"
      [] url = "https://c.example/" -> "c.example"
      [] OTHER -> ""

AdvertiserPage(url) ==
    IF url = "https://a.example/"
    THEN [word_count |-> 800, char_count |-> 5200, title_length |-> 42, meta_desc_length |-> 130,
          h1_count |-> 1, h2_count |-> 3, h3_count |-> 2, link_count |-> 30, external_links |-> 8,
          image_count |-> 12, alt_text_images |-> 11, total_social_mentions |-> 4,
          ad_indicators |-> 3, script_count |-> 9, external_scripts |-> 4, css_count |-> 3,
          paragraphs |-> 20, forms |-> 1, viewport_meta |-> TRUE]
    ELSE IF url = "https://c.example/"
    THEN [word_count |-> 350, char_count |-> 2400, title_length |-> 42, meta_desc_length |-> 19,
          h1_count |-> 1, h2_count |-> 2, h3_count |-> 0, link_count |-> 12, external_links |-> 5,
          image_count |-> 10, alt_text_images |-> 8, total_social_mentions |-> 1,
          ad_indicators |-> 1, script_count |-> 12, external_scripts |-> 4, css_count |-> 3,
          paragraphs |-> 9, forms |-> 0, viewport_meta |-> TRUE]
    ELSE [word_count |-> 120, char_count |-> 700, title_length |-> 14, meta_desc_length |-> 19,
          h1_count |-> 0, h2_count |-> 1, h3_count |-> 0, link_count |-> 2, external_links |-> 3,
          image_count |-> 0, alt_text_images |-> 0, total_social_mentions |-> 0,
          ad_indicators |-> 0, script_count |-> 14, external_scripts |-> 7, css_count |-> 6,
          paragraphs |-> 2, forms |-> 0, viewport_meta |-> FALSE]

Flag(b) == IF b THEN 1 ELSE 0

SeoFactors(page) ==
    <<Flag(30 <= page.title_length /\ page.title_length <= 60),
      Flag(120 <= page.meta_desc_length /\ page.meta_desc_length <= 160),
      Flag(page.h1_count > 0),
      Flag(page.h1_count + page.h2_count + page.h3_count >= 3),
      Flag(page.image_count > 0 /\ page.alt_text_images * 100 > 80 * page.image_count),
      Flag(page.word_count >= 300)>>

PerfFactors(page) ==
    <<Flag(page.script_count <= 10), Flag(page.external_scripts <= 5),
      Flag(page.css_count <= 5), Flag(page.image_count <= 50)>>

RECURSIVE Sum(_)
Sum(seq) == IF seq = <<>> THEN 0 ELSE seq[1] + Sum(Tail(seq))

\* the score cut to one decimal instead of rounded
ScoreTruncated(factors) == (Sum(factors) * 1000) \div Len(factors)

\* round(sum(factors.values()) / len(factors) * 100, 1), in tenths
Score(factors) == RoundDiv(Sum(factors) * 1000, Len(factors))

\* the record analyze_website returns for a fetched page
SiteRecord(url, page) ==
    [url |-> url, domain |-> Netloc(url),
     title_length |-> page.title_length, meta_desc_length |-> page.meta_desc_length,
     word_count |-> page.word_count, char_count |-> page.char_count,
     h1_count |-> page.h1_count, h2_count |-> page.h2_count, h3_count |-> page.h3_count,
     total_headings |-> page.h1_count + page.h2_count + page.h3_count,
     link_count |-> page.link_count,
     internal_links |-> IF page.link_count > page.external_links
                        THEN page.link_count - page.external_links ELSE 0,
     external_links |-> page.external_links,
     image_count |-> page.image_count,
     image_alt_text_ratio |-> IF page.image_count > 0
                              THEN RoundDiv(page.alt_text_images * 1000, page.image_count) ELSE 0,
     total_social_mentions |-> page.total_social_mentions,
     ad_indicators |-> page.ad_indicators,
     script_count |-> page.script_count, external_scripts |-> page.external_scripts,
     css_count |-> page.css_count, paragraphs |-> page.paragraphs, forms |-> page.forms,
     viewport_meta |-> page.viewport_meta,
     seo_score |-> Score(SeoFactors(page)),
     performance_score |-> Score(PerfFactors(page)),
     analysis_timestamp |-> "2025-09-27T10:30:00Z"]

\* urlparse(url).netloc if url else "unknown", evaluated in the except branch
ErrorDomain(url) ==
    IF url = ""
    THEN [raised |-> FALSE, domain |-> "unknown"]
    ELSE [raised |-> UrlParseRaises(url), domain |-> Netloc(url)]

\* analyze_website(url): requests.get fails on a text that is no URL and when
\* the network fails; the except branch builds the error record
AnalyzeWebsite(url, net_ok) ==
    IF net_ok /\ ~UrlParseRaises(url)
    THEN [raised |-> FALSE, record |-> SiteRecord(url, AdvertiserPage(url))]
    ELSE [raised |-> ErrorDomain(url).raised,
          record |-> [url |-> url, error |-> "Analysis failed: request failed",
                      domain |-> ErrorDomain(url).domain]]

\* the rows of website_comparison.metrics read with .get(field, 0)
ComparisonFields ==
    <<"word_count", "char_count", "total_headings", "h1_count", "paragraphs", "title_length",
      "meta_desc_length", "seo_score", "link_count", "internal_links", "external_links",
      "image_count", "image_alt_text_ratio", "total_social_mentions", "performance_score",
      "script_count", "css_count", "ad_indicators", "forms">>

\* analysis.get(field, 0) if analysis else 0
RowValue(analysis, field) == IF analysis = None THEN 0 ELSE Get(analysis, field)

\* 1 if analysis.get("viewport_meta", False) else 0 if analysis else 0:
\* the call of .get comes first and raises AttributeError on None
MobileRow(analysis) ==
    IF analysis = None
    THEN [raised |-> TRUE, value |-> 0]
    ELSE [raised |-> FALSE,
          value |-> IF "viewport_meta" \in DOMAIN analysis /\ analysis["viewport_meta"] THEN 1 ELSE 0]

ComparisonMetrics(my_analysis, competitor_analysis) ==
    [i \in 1..Len(ComparisonFields) |->
        [metric |-> ComparisonFields[i],
         my_site |-> RowValue(my_analysis, ComparisonFields[i]),
         competitor |-> RowValue(competitor_analysis, ComparisonFields[i])]]
    \o << [metric |-> "Mobile Optimized",
           my_site |-> MobileRow(my_analysis).value,
           competitor |-> MobileRow(competitor_analysis).value] >>

Analysed(analysis) == analysis # None /\ "error" \notin DOMAIN analysis

\* insights: the comparison when both analyses succeeded, else the error document
Insights(my_analysis, competitor_analysis) ==
    IF Analysed(my_analysis) /\ Analysed(competitor_analysis)
    THEN [performance_comparison |->
              [word_count_winner |-> IF my_analysis["word_count"] > competitor_analysis["word_count"]
                                     THEN "my_site" ELSE "competitor",
               seo_winner |-> IF my_analysis["seo_score"] > competitor_analysis["seo_score"]
                              THEN "my_site" ELSE "competitor"]]
    ELSE [error |-> "Could not generate insights due to analysis errors"]

AdvertiserGeminiReplies == {"json", "no_json", "exception"}

\* analyze_with_gemini: always a dict
AnalyzeWithGemini(available, my_analysis, competitor_analysis, reply) ==
    IF ~available
    THEN [error |-> "Gemini AI not available"]
    ELSE IF my_analysis = None \/ competitor_analysis = None \/ reply = "exception"
    THEN [error |-> "Gemini analysis failed", gemini_available |-> FALSE]
    ELSE IF reply = "json"
    THEN [gemini_available |-> TRUE, gemini_insights |-> [parsed |-> "json"]]
    ELSE [gemini_available |-> TRUE,
          gemini_insights |-> [error |-> "Failed to parse structured response"]]

CIStart ==
    \E my_website \in SiteArgs : \E competitor_website \in SiteArgs :
        /\ pc = "idle"
        /\ pc' = "ci_my"
        /\ req' = [op |-> "competitive-intelligence", svc |-> "advertiser",
                   my_website |-> my_website, competitor_website |-> competitor_website]
        /\ locals' = [my_analysis |-> None, competitor_analysis |-> None, failed |-> {}]
        /\ UNCHANGED resp
        /\ SiteFrame

\* analyze_website(request.my_website) if request.my_website else None
CIAnalyzeMy ==
    \E net_ok \in BOOLEAN :
        LET site == AnalyzeWebsite(req.my_website, net_ok)
        IN
        /\ pc = "ci_my"
        /\ IF req.my_website = "None"
           THEN pc' = "ci_competitor" /\ UNCHANGED <<locals, resp>>
           ELSE IF site.raised
           THEN /\ pc' = "done"
                /\ locals' = [locals EXCEPT !.failed = @ \cup {"my_website"}]
                /\ resp' = Failure("Competitive intelligence comparison failed: Invalid IPv6 URL")
           ELSE /\ pc' = "ci_competitor"
                /\ locals' = [locals EXCEPT
                       !.my_analysis = site.record,
                       !.failed = IF "error" \in DOMAIN site.record
                                  THEN @ \cup {"my_website"} ELSE @]
                /\ UNCHANGED resp
        /\ UNCHANGED req
        /\ SiteFrame

\* analyze_website(request.competitor_website) if request.competitor_website else None
CIAnalyzeCompetitor ==
    \E net_ok \in BOOLEAN :
        LET site == AnalyzeWebsite(req.competitor_website, net_ok)
        IN
        /\ pc = "ci_competitor"
        /\ IF req.competitor_website = "None"
           THEN pc' = "ci_respond" /\ UNCHANGED <<locals, resp>>
           ELSE IF site.raised
           THEN /\ pc' = "done"
                /\ locals' = [locals EXCEPT !.failed = @ \cup {"competitor_website"}]
                /\ resp' = Failure("Competitive intelligence comparison failed: Invalid IPv6 URL")
           ELSE /\ pc' = "ci_respond"
                /\ locals' = [locals EXCEPT
                       !.competitor_analysis = site.record,
                       !.failed = IF "error" \in DOMAIN site.record
                                  THEN @ \cup {"competitor_website"} ELSE @]
                /\ UNCHANGED resp
        /\ UNCHANGED req
        /\ SiteFrame

\* the insights, the Gemini analysis and the response document
CIRespond ==
    \E reply \in AdvertiserGeminiReplies :
        /\ pc = "ci_respond"
        /\ pc' = "done"
        /\ resp' =
             IF MobileRow(locals.my_analysis).raised \/ MobileRow(locals.competitor_analysis).raised
             THEN Failure("Competitive intelligence comparison failed: 'NoneType' object has no attribute 'get'")
             ELSE Outcome(200,
                    [service |-> "competitive_intelligence",
                     comparison |-> [my_website |-> locals.my_analysis,
                                     competitor_website |-> locals.competitor_analysis],
                     insights |-> Insights(locals.my_analysis, locals.competitor_analysis),
                     gemini_analysis |-> AnalyzeWithGemini(GEMINI_AVAILABLE, locals.my_analysis,
                                             locals.competitor_analysis, reply),
                     website_comparison |->
                         [metrics |-> ComparisonMetrics(locals.my_analysis,
                                                        locals.competitor_analysis)]],
                    0, <<>>, <<>>)
        /\ UNCHANGED <<req, locals>>
        /\ SiteFrame

NextCI == CIStart \/ CIAnalyzeMy \/ CIAnalyzeCompetitor \/ CIRespond

SpecCI == Init /\ [][NextCI]_vars

CIDone == pc = "done" /\ req.op = "competitive-intelligence"

\* the record of a site in the response
SiteOf(doc, site) ==
    IF site = "my_website" THEN doc.comparison.my_website ELSE doc.comparison.competitor_website

\* the value a row of website_comparison.metrics reports for a site
RowOf(row, site) == IF site = "my_website" THEN row.my_site ELSE row.competitor

\* C6: in competitive-intelligence with both sites given, a site whose fetch
\* or analysis fails never raises: the response is the comparison document
\* with both site records, the failed one carrying its URL and an error
\* string, insights is the error document and every comparison metric of the
\* failed site is 0.
CIFailedSiteIsErrorRecord ==
    (CIDone /\ req.my_website # "None" /\ req.competitor_website # "None"
        /\ locals.failed # {})
    => /\ resp.status = 200
       /\ "error" \in DOMAIN resp.doc.insights
       /\ \A site \in locals.failed :
             /\ "error" \in DOMAIN SiteOf(resp.doc, site)
             /\ SiteOf(resp.doc, site)["url"] = req[site]
             /\ \A i \in 1..Len(resp.doc.website_comparison.metrics) :
                   RowOf(resp.doc.website_comparison.metrics[i], site) = 0
       /\ \A site \in {"my_website", "competitor_website"} : SiteOf(resp.doc, site) # None

\* the same for sites whose address urlparse accepts
CIFailedFetchIsErrorRecord ==
    (CIDone /\ req.my_website \notin {"None", "http://["}
        /\ req.competitor_website \notin {"None", "http://["} /\ locals.failed # {})
    => /\ resp.status = 200
       /\ "error" \in DOMAIN resp.doc.insights
       /\ \A site \in locals.failed :
             /\ "error" \in DOMAIN SiteOf(resp.doc, site)
             /\ SiteOf(resp.doc, site)["url"] = req[site]
             /\ \A i \in 1..Len(resp.doc.website_comparison.metrics) :
                   RowOf(resp.doc.website_comparison.metrics[i], site) = 0

(***************************************************************************)
(* Keyword enrichment over the worker pool:                                *)
(* KeywordAnalysisService.enrich_keywords_with_sources (keywordanalysis.py)*)
(* and get_keyword_descriptions_with_sources (analysis.py), which run the  *)
(* same lookup through ThreadPoolExecutor(max_workers=5).map.  The entries *)
(* of keywords_list are the dicts discover_keywords asks Gemini for, each  *)
(* with its 'keyword'.                                                     *)
(***************************************************************************)
MaxKeywords == 6

max_workers == 5

KeywordTexts ==
    <<"running shoes", "buy trainers online", "acme sports", "marathon training",
      "trail shoes mumbai", "best sneakers", "acme outlet", "shoe store near me">>

KeywordEntry(i) ==
    [keyword |-> KeywordTexts[i],
     category |-> IF i % 3 = 1 THEN "high_intent" ELSE IF i % 3 = 2 THEN "brand" ELSE "awareness",
     rationale |-> "rationale"]

KeywordLists == {[i \in 1..n |-> KeywordEntry(i)] : n \in 1..MaxKeywords}

\* what exa_client.search_and_contents does for one keyword
LookupOutcomes == {"text", "no_text", "no_results", "raises"}

\* search_for_single_keyword without its except branch
SearchForSingleKeywordNoExcept(keyword_data, outcome) ==
    CASE outcome = "text" ->
            Merge(keyword_data, [description |-> <<"text[:250]", keyword_data.keyword>>,
                                 source |-> <<"url", keyword_data.keyword>>])
      [] outcome = "no_text" ->
            Merge(keyword_data, [description |-> "No text content found.",
                                 source |-> <<"url", keyword_data.keyword>>])
      [] outcome = "no_results" ->
            Merge(keyword_data, [description |-> "No description found.", source |-> "N/A"])
      [] OTHER -> keyword_data

\* search_for_single_keyword: keyword_data with description and source set
SearchForSingleKeyword(keyword_data, outcome) ==
    CASE outcome = "text" ->
            Merge(keyword_data, [description |-> <<"text[:250]", keyword_data.keyword>>,
                                 source |-> <<"url", keyword_data.keyword>>])
      [] outcome = "no_text" ->
            Merge(keyword_data, [description |-> "No text content found.",
                                 source |-> <<"url", keyword_data.keyword>>])
      [] outcome = "no_results" ->
            Merge(keyword_data, [description |-> "No description found.", source |-> "N/A"])
      [] OTHER ->
            Merge(keyword_data, [description |-> "Failed to fetch description.", source |-> "N/A"])

Indexes(status, value) == {i \in DOMAIN status : status[i] = value}

\* the work queue of the pool is first in, first out
NextQueued(status) ==
    CHOOSE i \in Indexes(status, "queued") : \A j \in Indexes(status, "queued") : i <= j

\* as_completed: any finished future may be taken next
CollectableAsCompleted(status, collected) ==
    {i \in Indexes(status, "done") : \A k \in 1..Len(collected) : collected[k] # i}

\* executor.map yields the futures' results in submission order
Collectable(status, collected) ==
    IF Len(collected) < Len(status) /\ status[Len(collected) + 1] = "done"
    THEN {Len(collected) + 1}
    ELSE {}

\* executor.map submits one future per entry of keywords_list
EnrichStart ==
    \E keywords_list \in KeywordLists :
        /\ pc = "idle"
        /\ pc' = "enrich_pool"
        /\ req' = [op |-> "enrich_keywords", svc |-> "keywords", keywords_list |-> keywords_list]
        /\ locals' = [status |-> [i \in 1..Len(keywords_list) |-> "queued"],
                      keyword_data |-> keywords_list,
                      lookups |-> [i \in 1..Len(keywords_list) |-> 0],
                      outcome |-> [i \in 1..Len(keywords_list) |-> "none"],
                      collected |-> <<>>,
                      overtaken |-> FALSE]
        /\ UNCHANGED resp
        /\ SiteFrame

\* an idle worker thread takes the next work item
WorkerStart ==
    /\ pc = "enrich_pool"
    /\ Indexes(locals.status, "queued") # {}
    /\ Cardinality(Indexes(locals.status, "running")) < max_workers
    /\ locals' = [locals EXCEPT !.status[NextQueued(locals.status)] = "running",
                                !.lookups[NextQueued(locals.status)] = @ + 1]
    /\ UNCHANGED <<pc, req, resp>>
    /\ SiteFrame

\* a running lookup returns
WorkerFinish ==
    /\ pc = "enrich_pool"
    /\ \E i \in Indexes(locals.status, "running") : \E outcome \in LookupOutcomes :
        /\ locals' = [locals EXCEPT
               !.status[i] = "done",
               !.keyword_data[i] = SearchForSingleKeyword(@, outcome),
               !.outcome[i] = outcome,
               !.overtaken = @ \/ \E j \in 1..(i - 1) : locals.status[j] = "running"]
        /\ UNCHANGED <<pc, req, resp>>
        /\ SiteFrame

\* list(...) takes the next result from the iterator of executor.map
CollectResult ==
    /\ pc = "enrich_pool"
    /\ \E i \in Collectable(locals.status, locals.collected) :
        /\ Len(locals.collected) < Len(locals.status)
        /\ locals' = [locals EXCEPT !.collected = Append(@, i)]
        /\ UNCHANGED <<pc, req, resp>>
        /\ SiteFrame

\* the with block is left and enriched_keywords is returned
EnrichReturn ==
    /\ pc = "enrich_pool"
    /\ Len(locals.collected) = Len(locals.status)
    /\ pc' = "done"
    /\ resp' = Outcome(200,
                 [enriched_keywords |->
                     [k \in 1..Len(locals.collected) |-> locals.keyword_data[locals.collected[k]]]],
                 0, <<>>, <<>>)
    /\ UNCHANGED <<req, locals>>
    /\ SiteFrame

NextEnrich == EnrichStart \/ WorkerStart \/ WorkerFinish \/ CollectResult \/ EnrichReturn

\* the keyword service reads none of the advertiser and publisher globals:
\* the startup at which every optional service is installed
InitEnrich == InitRouter /\ playwright_available /\ gemini_model = "configured"

SpecEnrich == InitEnrich /\ [][NextEnrich]_vars

EnrichDone == pc = "done" /\ req.op = "enrich_keywords"

OwnDescription(keyword, outcome) ==
    CASE outcome = "text" -> <<"text[:250]", keyword>>
      [] outcome = "no_text" -> "No text content found."
      [] OTHER -> "No description found."

ServiceResponse(result) == Outcome(result.status, result.doc, 0, <<>>, <<>>)

\* POST /advertiser/exa-competitive-intelligence
exa_competitive_intelligence ==
    \E exa \in ExaOutcomes :
        LET result == AdvertiserCompetitiveIntelligence(exa_agent, exa)
        IN
        /\ pc = "idle"
        /\ pc' = "done"
        /\ req' = [op |-> "exa-competitive-intelligence", svc |-> "advertiser", exa |-> exa]
        /\ locals' = [upstream |-> result.upstream]
        /\ resp' = ServiceResponse(result)
        /\ SiteFrame

\* POST /publisher/exa-content-strategy
exa_content_strategy ==
    \E exa \in ExaOutcomes :
        LET result == PublisherContentStrategy(exa_agent, exa)
        IN
        /\ pc = "idle"
        /\ pc' = "done"
        /\ req' = [op |-> "exa-content-strategy", svc |-> "publisher", exa |-> exa]
        /\ locals' = [upstream |-> result.upstream]
        /\ resp' = ServiceResponse(result)
        /\ SiteFrame

\* ImageGenerationService._check_service
CheckService(service) ==
    IF service.client = "None"
    THEN AgentRaises(503, "Image generation service not configured. Please set GEMINI_API_KEY.",
                     <<>>)
    ELSE [status |-> 200, doc |-> NoDoc, upstream |-> <<>>]

\* response.text of the analysis: a JSON object, another JSON value, no JSON;
\* or generate_content raises
CampaignReplies == {"json_object", "json_other", "malformed", "raises"}

\* ImageGenerationService.analyze_campaign
AnalyzeCampaign(service, reply) ==
    IF CheckService(service).status # 200
    THEN CheckService(service)
    ELSE IF reply \in {"raises", "json_other"}
    THEN AgentRaises(500, "Campaign analysis failed", <<"gemini.generate_content">>)
    ELSE [status |-> 200,
          doc |-> IF reply = "json_object"
                  THEN [Domain_Classification |-> "from Gemini", Ad_Focus |-> "from Gemini",
                        Predicted_Campaign_Goal |-> "from Gemini"]
                  ELSE [Domain_Classification |-> "General Business",
                        Ad_Focus |-> "Brand Awareness",
                        Predicted_Campaign_Goal |-> "Increase Visibility"],
          upstream |-> <<"gemini.generate_content">>]

\* the image model returns an image that is saved, an image that cannot be
\* saved, no image; or generate_content raises
BannerReplies == {"image", "image_not_saved", "no_image", "raises"}

\* ImageGenerationService._generate_fallback_concept
FallbackConcept ==
    [message |-> "Banner concept generated (image generation not available)",
     fallback_mode |-> TRUE]

\* generate_banner_concept without the except branch around image generation
GenerateBannerConceptNoFallback(service, reply) ==
    IF CheckService(service).status # 200
    THEN CheckService(service)
    ELSE IF reply \in {"raises", "image_not_saved"}
    THEN AgentRaises(500, "Banner concept generation failed", <<"gemini.generate_content">>)
    ELSE [status |-> 200,
          doc |-> IF reply = "image"
                  THEN [message |-> "Banner image generated successfully",
                        image_path |-> "/static/images/creative.png"]
                  ELSE FallbackConcept,
          upstream |-> <<"gemini.generate_content">>]

\* ImageGenerationService.generate_banner_concept
GenerateBannerConcept(service, reply) ==
    IF CheckService(service).status # 200
    THEN CheckService(service)
    ELSE [status |-> 200,
          doc |-> IF reply = "image"
                  THEN [message |-> "Banner image generated successfully",
                        image_path |-> "/static/images/creative.png"]
                  ELSE FallbackConcept,
          upstream |-> <<"gemini.generate_content">>]

\* ImageGenerationService.generate_banner_image_response: every exception
\* of its try, the HTTPExceptions included, becomes HTTPException(500)
GenerateBannerImageResponse(service, reply, file_exists) ==
    LET result == GenerateBannerConcept(service, reply)
    IN IF result.status = 200 /\ "image_path" \in DOMAIN result.doc /\ file_exists
       THEN [status |-> 200, doc |-> [media_type |-> "image/png"], upstream |-> result.upstream]
       ELSE AgentRaises(500, "Image generation failed", result.upstream)

\* POST /advertiser/analyze-campaign
analyze_campaign ==
    \E reply \in CampaignReplies :
        LET result == AnalyzeCampaign(image_gen_service, reply)
        IN
        /\ pc = "idle"
        /\ pc' = "done"
        /\ req' = [op |-> "analyze-campaign", svc |-> "advertiser", reply |-> reply]
        /\ locals' = [upstream |-> result.upstream]
        /\ resp' = IF result.status = 200
                   THEN Outcome(200, [service |-> "advertiser",
                                      analysis_type |-> "campaign_analysis",
                                      analysis |-> result.doc,
                                      timestamp |-> "2025-09-27T10:30:00Z"], 0, <<>>, <<>>)
                   ELSE ServiceResponse(result)
        /\ SiteFrame

\* POST /advertiser/generate-banner-concept
generate_banner_concept ==
    \E reply \in BannerReplies :
        LET result == GenerateBannerConcept(image_gen_service, reply)
        IN
        /\ pc = "idle"
        /\ pc' = "done"
        /\ req' = [op |-> "generate-banner-concept", svc |-> "advertiser", reply |-> reply]
        /\ locals' = [upstream |-> result.upstream]
        /\ resp' = IF result.status = 200
                   THEN Outcome(200, [service |-> "advertiser",
                                      generation_type |-> "banner_concept",
                                      result |-> result.doc,
                                      timestamp |-> "2025-09-27T10:30:00Z"], 0, <<>>, <<>>)
                   ELSE ServiceResponse(result)
        /\ SiteFrame

\* POST /advertiser/generate-banner-image
generate_banner_image ==
    \E reply \in BannerReplies : \E file_exists \in BOOLEAN :
        LET result == GenerateBannerImageResponse(image_gen_service, reply, file_exists)
        IN
        /\ pc = "idle"
        /\ pc' = "done"
        /\ req' = [op |-> "generate-banner-image", svc |-> "advertiser", reply |-> reply,
                   file_exists |-> file_exists]
        /\ locals' = [upstream |-> result.upstream]
        /\ resp' = ServiceResponse(result)
        /\ SiteFrame

NextServices ==
    \/ exa_competitive_intelligence \/ exa_content_strategy
    \/ analyze_campaign \/ generate_banner_concept \/ generate_banner_image
    \/ CAStart \/ CAPrimary \/ CAExa \/ CACompetitor \/ CARespond

SpecServices == Init /\ [][NextServices]_vars

ExaEndpoints == {"exa-competitive-intelligence", "exa-content-strategy"}

ImageEndpoints == {"analyze-campaign", "generate-banner-concept", "generate-banner-image"}

ExaCredentialsMissing == exa_agent.exa_client = "None" \/ exa_agent.gemini_model = "None"

\* the request ended, and it needed a service whose credentials are missing;
\* competitive-analysis needs Exa once the input site is fetched
NeededServiceMissing ==
    /\ pc = "done"
    /\ \/ req.op \in ExaEndpoints /\ ExaCredentialsMissing
       \/ req.op = "competitive-analysis" /\ locals.input_metrics # NoDoc /\ ExaCredentialsMissing
       \/ req.op \in ImageEndpoints /\ image_gen_service.client = "None"

\* C12: when the credentials of a required upstream service are missing,
\* every endpoint that depends on the service answers HTTP 503 and no call to
\* the service is attempted.
MissingCredentialsAnswer503 ==
    NeededServiceMissing => resp.status = 503 /\ locals.upstream = <<>>

\* the same for the endpoints that let the HTTPException of the service pass
PassingEndpointsAnswer503 ==
    (NeededServiceMissing /\ req.op \notin {"competitive-analysis", "generate-banner-image"})
    => resp.status = 503 /\ locals.upstream = <<>>

\* no call is attempted by any of the six endpoints
MissingCredentialsNoUpstreamCall ==
    NeededServiceMissing => resp.status \in {500, 503} /\ locals.upstream = <<>>

(***************************************************************************)
(* POST /publisher/analyze step by step, over every short response text.   *)
(***************************************************************************)
MaxTextLen == 4

\* every response text of at most MaxTextLen tokens, the empty one included
ResponseTexts == UNION {[1..n -> Tokens] : n \in 0..MaxTextLen}

GeminiResponses ==
    {[raises |-> FALSE, text |-> text] : text \in ResponseTexts}
        \cup {[raises |-> TRUE, text |-> <<>>]}

\* the request arrives and the page is fetched
AnalyzeStart ==
    \E url \in Urls : \E net \in NetOutcomes :
        LET fetch == FetchWithFallback(playwright_available, url, net)
        IN
        /\ pc = "idle"
        /\ req' = [op |-> "analyze", svc |-> "publisher", url |-> url]
        /\ locals' = [fetch_method |-> fetch.method, fetches |-> fetch.fetches,
                      attempts |-> <<Attempt(fetch)>>,
                      reply |-> [raises |-> FALSE, text |-> <<>>], response_text |-> <<>>,
                      report |-> NoDoc]
        /\ IF fetch.ok
           THEN pc' = "analyze_gemini" /\ UNCHANGED resp
           ELSE pc' = "done" /\ resp' = Failure("Analysis failed: Failed to fetch URL")
        /\ SiteFrame

\* report = call_gemini(prompt)
AnalyzeCallGemini ==
    \E reply \in GeminiResponses :
        /\ pc = "analyze_gemini"
        /\ pc' = "analyze_report"
        /\ locals' = [locals EXCEPT
               !.reply = reply,
               !.response_text = IF gemini_model = "None" \/ reply.raises
                                 THEN <<>> ELSE Repair(reply.text),
               !.report = CallGemini(gemini_model, reply)]
        /\ UNCHANGED <<req, resp>>
        /\ SiteFrame

\* the three item assignments on report and the response
AnalyzeRespond ==
    /\ pc = "analyze_report"
    /\ pc' = "done"
    /\ resp' = IF IsDict(locals.report)
               THEN Outcome(200,
                      [url |-> req.url,
                       report |-> SetItem(SetItem(SetItem(locals.report,
                                     "fetch_method", locals.fetch_method),
                                     "url", req.url), "service", "publisher")],
                      0, <<>>, locals.fetches)
               ELSE Failure("Analysis failed: TypeError")
    /\ UNCHANGED <<req, locals>>
    /\ SiteFrame

NextAnalyze == AnalyzeStart \/ AnalyzeCallGemini \/ AnalyzeRespond

SpecAnalyze == InitRouter /\ [][NextAnalyze]_vars

\* call_gemini has returned for a configured model and a text it repairs
RepairApplied ==
    /\ pc \in {"analyze_report", "done"} /\ req.op = "analyze"
    /\ gemini_model = "configured"
    /\ locals.report # NoDoc
    /\ ~locals.reply.raises /\ locals.reply.text # <<>>
    /\ ~EndsWith(locals.reply.text, "}") /\ ~EndsWith(locals.reply.text, "]")

Balanced(text) ==
    /\ Count(text, "{") = Count(text, "}")
    /\ Count(text, "[") = Count(text, "]")

AnalyzeDone == pc = "done" /\ req.op = "analyze"

\* call_gemini was called and its generation call failed: it raised, or its
\* text is empty or is not the JSON object the prompt asks for
GeminiCallFailed ==
    /\ locals.report # NoDoc
    /\ gemini_model = "configured"
    /\ \/ locals.reply.raises
       \/ locals.reply.text = <<>>
       \/ ~(Parses(locals.reply.text) /\ locals.reply.text[1] = "{")

\* C13: a failure of the Gemini generation call (an exception, or a response
\* that is not the requested JSON) never crashes the request: the response
\* document is returned with its non-AI data (url, fetch_method, service)
\* intact, the report being the repaired object or carrying an error field.
GeminiFailureNeverCrashes ==
    (AnalyzeDone /\ GeminiCallFailed)
    => /\ resp.status = 200
       /\ resp.doc.url = req.url
       /\ resp.doc.report["fetch_method"] = locals.fetch_method
       /\ resp.doc.report["service"] = "publisher"
       /\ "error" \in DOMAIN resp.doc.report \/ "parsed" \in DOMAIN resp.doc.report

\* the same for a generation call that raises or whose text json.loads rejects
GeminiExceptionNeverCrashes ==
    (AnalyzeDone /\ GeminiCallFailed
        /\ (locals.reply.raises \/ locals.reply.text = <<>> \/ ~Parses(locals.response_text)))
    => /\ resp.status = 200
       /\ resp.doc.url = req.url
       /\ "error" \in DOMAIN resp.doc.report

\* the same for the Gemini call of the Exa agent methods
AgentGeminiFailureKept ==
    (pc = "done" /\ req.op \in ExaEndpoints /\ ~ExaCredentialsMissing
        /\ req.exa.search = "ok" /\ req.exa.gemini = "raises")
    => /\ resp.status = 200
       /\ "error" \in DOMAIN resp.doc.ai_insights
       /\ resp.doc.total_results = Len(req.exa.results)

\* the position, counted from 0, of the last '}' or ']' of the text
LastCloser(text) ==
    IF RFind(text, "}") > RFind(text, "]") THEN RFind(text, "}") ELSE RFind(text, "]")

\* C19: for a response text that ends with neither '}' nor ']' and holds one
\* of them, the repaired text is the text cut after its last '}' or ']'
\* followed by closers only, and it is balanced: as many '}' as '{' and as
\* many ']' as '['.
RepairCutsAndBalances ==
    (RepairApplied /\ LastCloser(locals.reply.text) >= 0)
    => LET text     == locals.reply.text
           repaired == locals.response_text
           cut      == LastCloser(text) + 1
       IN /\ Len(repaired) >= cut
          /\ SubSeq(repaired, 1, cut) = SubSeq(text, 1, cut)
          /\ \A i \in (cut + 1)..Len(repaired) : repaired[i] \in {"}", "]"}
          /\ Balanced(repaired)

\* the repaired text starts with the cut and, where the code repairs, adds closers only
RepairCuts ==
    (RepairApplied /\ LastCloser(locals.reply.text) > 0)
    => LET text     == locals.reply.text
           repaired == locals.response_text
           cut      == LastCloser(text) + 1
       IN /\ SubSeq(repaired, 1, cut) = SubSeq(text, 1, cut)
          /\ \A i \in (cut + 1)..Len(repaired) : repaired[i] \in {"}", "]"}

\* C20: call_gemini always returns a dict, the parsed JSON object or a dict
\* with an 'error' key, so the assignments of fetch_method, url and service
\* on the report never fail.
CallGeminiReturnsDict ==
    (pc \in {"analyze_report", "done"} /\ req.op = "analyze" /\ locals.report # NoDoc)
    => /\ IsDict(locals.report)
       /\ "parsed" \in DOMAIN locals.report \/ "error" \in DOMAIN locals.report
       /\ pc = "done" => resp.status = 200

\* the same for every text that is no JSON list and no JSON scalar
CallGeminiReturnsDictUnlessOtherJson ==
    (pc \in {"analyze_report", "done"} /\ req.op = "analyze" /\ locals.report # NoDoc
        /\ ~(Parses(locals.response_text) /\ locals.response_text[1] # "{"))
    => /\ IsDict(locals.report)
       /\ "parsed" \in DOMAIN locals.report \/ "error" \in DOMAIN locals.report
       /\ pc = "done" => resp.status = 200

\* C14: an empty query sent to POST /query is rejected with a descriptive
\* error: it is never passed to the embedding model and never routed to a
\* metric handler.
EmptyQueryRejected ==
    (req.op = "query" /\ req.q = "")
    => /\ resp.encode_calls = 0
       /\ resp.handler_calls = <<>>
       /\ "error" \in DOMAIN resp.doc \/ "detail" \in DOMAIN resp.doc

\* the same without the embedding: an empty query whose similarities stay below the threshold
EmptyQueryBelowThresholdNotRouted ==
    (req.op = "query" /\ req.q = "" /\ ~req.encode_raises
        /\ BelowThreshold(MaxSimilarity(req.oracle)))
    => resp.handler_calls = <<>> /\ "error" \in DOMAIN resp.doc

\* C15: when the embedding of the query fails, the /query request ends with
\* HTTP 500, model.encode having been called exactly once, no metric handler
\* called and neither a metric document nor the no-match document returned.
EmbeddingFailureIsFatal ==
    (req.op = "query" /\ req.encode_raises)
    => /\ resp.status = 500
       /\ resp.encode_calls = 1
       /\ resp.handler_calls = <<>>
       /\ "metric" \notin DOMAIN resp.doc
       /\ "error" \notin DOMAIN resp.doc
       /\ decorated = <<"none", "none">>

EmbeddingFailureWitness ==
    /\ req.op = "query" /\ req.svc = "publisher" /\ req.encode_raises
    /\ req.q = "how many people clicked my ad"
    /\ resp.status = 500

(***************************************************************************)
(* The fetches of analyze_site, competitive_analysis and                   *)
(* competitive_analysis_multiple together.                                 *)
(***************************************************************************)
NextFetch == NextSites \/ NextAnalyze

SpecFetch == InitRouter /\ [][NextFetch]_vars

FetchingOps == {"analyze", "competitive-analysis", "competitive-analysis-multiple"}

MetricDocsCarrySchema ==
    req.op = "get" => {"metric", "value", "description"} \subseteq DOMAIN resp.doc

\* every document carries metric and description, and value unless it is
\* the publisher's revenue or geography document
MetricDocsCarrySchemaButTwo ==
    req.op = "get"
    => /\ {"metric", "description"} \subseteq DOMAIN resp.doc
       /\ resp.doc.metric = req.key
       /\ "value" \in DOMAIN resp.doc
            <=> ~(req.svc = "publisher" /\ req.key \in {"revenue", "geography"})

(***************************************************************************)
(* The checklist scores of analyze_website.                                *)
(***************************************************************************)
\* the number of checks of the SEO checklist a page satisfies
SeoSatisfied(page) ==
    Cardinality({c \in {"title_length_optimal", "meta_desc_optimal", "h1_present",
                        "heading_structure", "image_alt_text", "content_length"} :
        CASE c = "title_length_optimal" -> page.title_length \in 30..60
          [] c = "meta_desc_optimal" -> page.meta_desc_length \in 120..160
          [] c = "h1_present" -> page.h1_count > 0
          [] c = "heading_structure" -> page.h1_count + page.h2_count + page.h3_count >= 3
          [] c = "image_alt_text" ->
                page.image_count > 0 /\ page.alt_text_images * 100 > 80 * page.image_count
          [] c = "content_length" -> page.word_count >= 300})

\* the number of checks of the performance checklist a page satisfies
PerfSatisfied(page) ==
    Cardinality({c \in {"script_count_reasonable", "external_script_minimal",
                        "css_count_reasonable", "image_count_reasonable"} :
        CASE c = "script_count_reasonable" -> page.script_count <= 10
          [] c = "external_script_minimal" -> page.external_scripts <= 5
          [] c = "css_count_reasonable" -> page.css_count <= 5
          [] c = "image_count_reasonable" -> page.image_count <= 50})

\* the records of the pages analysed without an error in this request
AnalysedRecords ==
    {r \in {locals.my_analysis, locals.competitor_analysis} :
        r # None /\ "error" \notin DOMAIN r}

\* C18 as stated: seo_score is exactly 100 * satisfied / 6 and
\* performance_score exactly 100 * satisfied / 4 (scores are in tenths), both
\* between 0 and 100.
ScoresAreExactFractions ==
    req.op = "competitive-intelligence"
    => \A r \in AnalysedRecords :
          LET page == AdvertiserPage(r.url)
          IN /\ r.seo_score * 6 = 1000 * SeoSatisfied(page)
             /\ r.performance_score * 4 = 1000 * PerfSatisfied(page)
             /\ r.seo_score \in 0..1000
             /\ r.performance_score \in 0..1000

\* C18: seo_score is 100 * satisfied / 6 and performance_score is
\* 100 * satisfied / 4, each rounded to one decimal (at most half a tenth
\* from the fraction); both lie between 0 and 100 inclusive.
ScoresAreRoundedFractions ==
    req.op = "competitive-intelligence"
    => \A r \in AnalysedRecords :
          LET page == AdvertiserPage(r.url)
              seo  == 6 * r.seo_score - 1000 * SeoSatisfied(page)
              perf == 4 * r.performance_score - 1000 * PerfSatisfied(page)
          IN /\ -3 <= seo /\ seo <= 3
             /\ -2 <= perf /\ perf <= 2
             /\ r.seo_score \in 0..1000
             /\ r.performance_score \in 0..1000

\* a page satisfying 4 of the 6 SEO checks and 3 of the 4 performance checks
\* was analysed: its scores are 66.7 and 75.0
RoundedScoreWitness ==
    /\ CIDone /\ resp.status = 200
    /\ \E r \in AnalysedRecords :
          /\ SeoSatisfied(AdvertiserPage(r.url)) = 4 /\ r.seo_score = 667
          /\ PerfSatisfied(AdvertiserPage(r.url)) = 3 /\ r.performance_score = 750
          /\ resp.doc.comparison.my_website = r

(***************************************************************************)
(* URL queries of POST /publisher/query.                                   *)
(***************************************************************************)
\* an http(s) URL: the scheme of a URL is matched whatever its case
IsHttpUrl(chunk) ==
    chunk.scheme \in {"http", "https", "Http", "Https", "HTTP", "HTTPS"} /\ chunk.rest # ""

HttpUrlsIn(t) == SelectSeq(SchemeChunks(t), IsHttpUrl)

\* the response of the website-analysis path for the URL text url
AnalysisPathResponse(url) ==
    /\ resp.status = 200
    /\ resp.encode_calls = 0
    /\ resp.handler_calls = <<>>
    /\ \/ /\ DOMAIN resp.doc = {"type", "query", "url", "analysis"}
          /\ resp.doc.type = "website_analysis"
          /\ resp.doc.url = url
       \/ /\ DOMAIN resp.doc = {"error"}
          /\ resp.doc.error[1] = "Website analysis failed: "

\* C21: a /publisher/query text containing an http(s) URL takes the
\* website-analysis path on the first URL found, reaches neither the metric
\* routing nor the embedding model, and a failure of the analysis is
\* returned as the document {"error": "Website analysis failed: ..."}.
UrlQueryTakesAnalysisPath ==
    (req.op = "query" /\ req.svc = "publisher" /\ HttpUrlsIn(req.q) # <<>>)
    => AnalysisPathResponse(HttpUrlsIn(req.q)[1].text)

\* the same for the texts in which the pattern of the handler finds a URL
PatternMatchTakesAnalysisPath ==
    (req.op = "query" /\ req.svc = "publisher" /\ FindUrls(req.q) # <<>>)
    => /\ AnalysisPathResponse(FindUrls(req.q)[1])
       /\ "error" \in DOMAIN resp.doc
            <=> \/ HttpUrlRejects(FindUrls(req.q)[1])
                \/ ~FetchWithFallback(playwright_available, FindUrls(req.q)[1], req.net).ok
                \/ ~IsDict(CallGemini(gemini_model, req.reply))

(***************************************************************************)
(* The fetch method of analyze_site, competitive_analysis and              *)
(* competitive_analysis_multiple.                                          *)
(***************************************************************************)
\* the renderer was tried for the URL of an attempt and raised
RendererFailed(attempt) ==
    attempt.methods[1] = "playwright" /\ ~(attempt.ok /\ Len(attempt.methods) = 1)

\* the method that produced the HTML of a successful attempt
Producer(attempt) == attempt.methods[Len(attempt.methods)]

\* the fetch_method field of a response document
ReportedFetchMethod ==
    IF req.op = "analyze" THEN resp.doc.report["fetch_method"] ELSE resp.doc["fetch_method"]

FetchResponded == pc = "done" /\ req.op \in FetchingOps /\ resp.status = 200

\* fetch_method names the method that produced the primary site's HTML
FetchMethodNamesProducer ==
    FetchResponded
    => /\ locals.attempts[1].ok
       /\ ReportedFetchMethod = Producer(locals.attempts[1])

\* C22: in the three operations the renderer is used when it is available
\* and the plain GET otherwise or after the renderer failed, and the reported
\* fetch_method is 'playwright' exactly when the renderer produced the
\* primary site's HTML and 'fallback' exactly when the plain GET did.
FetchMethodAsSpecified ==
    req.op \in FetchingOps
    => /\ \A k \in 1..Len(locals.attempts) :
             LET attempt == locals.attempts[k]
             IN /\ attempt.methods[1] = "playwright" <=> playwright_available
                /\ "fallback" \in Range(attempt.methods)
                     <=> (~playwright_available \/ RendererFailed(attempt))
       /\ FetchMethodNamesProducer

\* the same with the first part for the primary site and for the competitors
\* of competitive_analysis_multiple only
PrimaryFetchMethodAsSpecified ==
    req.op \in FetchingOps
    => /\ \A k \in 1..Len(locals.attempts) :
             LET attempt == locals.attempts[k]
             IN /\ attempt.methods[1] = "playwright" <=> playwright_available
                /\ (k = 1 \/ req.op # "competitive-analysis")
                     => ("fallback" \in Range(attempt.methods)
                            <=> (~playwright_available \/ RendererFailed(attempt)))
       /\ FetchMethodNamesProducer

(***************************************************************************)
(* Requests of competitive-intelligence that omit a site.                  *)
(***************************************************************************)
\* the sites a request leaves out (None, or the empty string)
Omitted == {site \in {"my_website", "competitor_website"} : req[site] = "None"}

\* C23: competitive-intelligence answers every request with a response
\* document, never HTTP 500; an omitted site's record is null, insights is
\* the error document and every row of website_comparison.metrics reports 0
\* for the omitted site.
CIAlwaysAnswers ==
    CIDone
    => /\ resp.status = 200
       /\ \A site \in Omitted :
             /\ SiteOf(resp.doc, site) = None
             /\ "error" \in DOMAIN resp.doc.insights
             /\ \A i \in 1..Len(resp.doc.website_comparison.metrics) :
                   RowOf(resp.doc.website_comparison.metrics[i], site) = 0

\* a request that omits a site ends with HTTP 500 once both analyses are
\* through: the 'Mobile Optimized' row calls .get on None
CIOmittedSiteFails ==
    (CIDone /\ Omitted # {}) => resp.status = 500

\* with both sites given and addresses urlparse accepts, the response is a document
CIBothGivenAnswers ==
    (CIDone /\ Omitted = {} /\ req.my_website # "http://["
        /\ req.competitor_website # "http://[")
    => resp.status = 200

(***************************************************************************)
(* generate_marketing_strategy: the pipeline of keywordanalysis.py         *)
(* (KeywordAnalysisService) and of analysis.py.                            *)
(*                                                                         *)
(* Money is in cents, conversions in tenths, ROAS in hundredths.           *)
(***************************************************************************)
MaxStrategyKeywords == 2

Implementations == {"keywordanalysis", "analysis"}

\* the keyword entries Gemini's JSON may hold: the requested shape with each
\* category, and an entry without the key 'keyword'
StrategyEntries ==
    {KeywordEntry(1), KeywordEntry(2), KeywordEntry(3),
     [keyword |-> "shoe store near me", category |-> "local", rationale |-> "rationale"],
     [category |-> "brand", rationale |-> "rationale"]}

StrategyKeywordLists == UNION {[1..n -> StrategyEntries] : n \in 1..MaxStrategyKeywords}

\* what gemini_model.generate_content gives discover_keywords
DiscoveryReplies ==
    {[kind |-> "raises", keywords |-> <<>>], [kind |-> "bad_json", keywords |-> <<>>],
     [kind |-> "no_keywords_key", keywords |-> <<>>], [kind |-> "json", keywords |-> <<>>]}
    \cup {[kind |-> "json", keywords |-> k] : k \in StrategyKeywordLists}

\* _initialize_services
InitializeServices(outcome) ==
    CASE outcome = "missing_keys" ->
            [exa_client |-> "None", gemini_model |-> "None", is_initialized |-> FALSE,
             stage |-> "ready"]
      [] outcome = "exa_raises" ->
            [exa_client |-> "None", gemini_model |-> "None", is_initialized |-> FALSE,
             stage |-> "ready"]
      [] outcome = "gemini_raises" ->
            [exa_client |-> "configured", gemini_model |-> "None", is_initialized |-> FALSE,
             stage |-> "ready"]
      [] OTHER ->
            [exa_client |-> "configured", gemini_model |-> "configured", is_initialized |-> TRUE,
             stage |-> "ready"]

\* KeywordAnalysisService(): the singleton is built at import time
KeywordServiceInit ==
    \E outcome \in {"missing_keys", "exa_raises", "gemini_raises", "ok"} :
        /\ pc = "idle"
        /\ keyword_analysis_service.stage = "new"
        /\ keyword_analysis_service' = InitializeServices(outcome)
        /\ UNCHANGED <<METRICS, FUNCTION_MAP, metric_keys, metric_embeddings, handler_docs,
                       playwright_available, gemini_model, GEMINI_AVAILABLE, exa_agent,
                       image_gen_service, rag_engine, decorated, pc, locals, req, resp>>

\* the list discover_keywords hands to the pipeline, or the exception of the
\* json.loads of analysis.py
DiscoverKeywords(impl, reply) ==
    IF reply.kind = "bad_json" /\ impl = "analysis"
    THEN [raised |-> TRUE, keywords_list |-> <<>>]
    ELSE [raised |-> FALSE,
          keywords_list |-> IF reply.kind = "json" THEN reply.keywords ELSE <<>>]

\* an empty discovery lets the pipeline go on
NoKeywordsIgnored(keywords_list) == FALSE

\* if not keywords_list
NoKeywords(keywords_list) == keywords_list = <<>>

WellFormed(keyword_data) == "keyword" \in DOMAIN keyword_data

FirstMalformed(keywords_list) ==
    CHOOSE i \in 1..(Len(keywords_list) + 1) :
        /\ i <= Len(keywords_list) => ~WellFormed(keywords_list[i])
        /\ \A j \in 1..(i - 1) : WellFormed(keywords_list[j])

\* the indexes whose work item may or may not have run when the KeyError of
\* an entry without 'keyword' ends executor.map
AfterMalformed(keywords_list) ==
    {i \in 1..Len(keywords_list) : i > FirstMalformed(keywords_list) /\ WellFormed(keywords_list[i])}

\* enrich_keywords_with_sources / get_keyword_descriptions_with_sources:
\* outcomes gives the result of each lookup, skipped the work items cancelled
\* after a KeyError
EnrichKeywords(impl, keywords_list, outcomes, skipped) ==
    LET broken == FirstMalformed(keywords_list) <= Len(keywords_list)
        ran(i) == WellFormed(keywords_list[i]) /\ ~(broken /\ i \in skipped)
        enriched == [i \in 1..Len(keywords_list) |->
                        IF ran(i) THEN SearchForSingleKeyword(keywords_list[i], outcomes[i])
                        ELSE keywords_list[i]]
    IN [raised |-> broken /\ impl = "analysis",
        keywords |-> enriched,
        lookups |-> Cardinality({i \in 1..Len(keywords_list) : ran(i)})]

\* np.random.randint(low, high) and round(np.random.uniform(low, high), 2):
\* the least and the greatest value of each draw
Draws == {"least", "greatest"}

EstimateAdMetrics(keyword_data, draw) ==
    LET category == IF "category" \in DOMAIN keyword_data THEN keyword_data.category ELSE "None"
        least    == draw = "least"
    IN CASE category = "high_intent" ->
              Merge(keyword_data, [monthly_search_volume |-> IF least THEN 1000 ELSE 4999,
                                   estimated_cpc |-> IF least THEN 500 ELSE 1500])
         [] category = "brand" ->
              Merge(keyword_data, [monthly_search_volume |-> IF least THEN 500 ELSE 9999,
                                   estimated_cpc |-> IF least THEN 100 ELSE 500])
         [] category = "awareness" ->
              Merge(keyword_data, [monthly_search_volume |-> IF least THEN 5000 ELSE 49999,
                                   estimated_cpc |-> IF least THEN 50 ELSE 300])
         [] OTHER ->
              Merge(keyword_data, [monthly_search_volume |-> IF least THEN 200 ELSE 999,
                                   estimated_cpc |-> IF least THEN 200 ELSE 700])

\* ASSUMED_CTR = 0.035, in thousandths
ASSUMED_CTR == 35
\* ASSUMED_CONVERSION_RATE = 0.04, in hundredths
ASSUMED_CONVERSION_RATE == 4
ASSUMED_AVG_CONVERSION_VALUE == 250

\* kw.get(field, 0)
GetOrZero(kw, field) == IF field \in DOMAIN kw THEN kw[field] ELSE 0

ProjectAdvertisingPerformance(kw) ==
    LET clicks == GetOrZero(kw, "monthly_search_volume") * ASSUMED_CTR
        cpc    == GetOrZero(kw, "estimated_cpc")
    IN Merge(kw,
         [estimated_monthly_clicks |-> RoundDiv(clicks, 1000),
          estimated_monthly_cost |-> RoundDiv(clicks * cpc, 1000),
          projected_monthly_conversions |-> RoundDiv(clicks * ASSUMED_CONVERSION_RATE, 10000),
          projected_monthly_revenue |->
              RoundDiv(clicks * ((ASSUMED_CONVERSION_RATE * ASSUMED_AVG_CONVERSION_VALUE) \div 10),
                       100),
          projected_roas |->
              IF clicks * cpc > 0
              THEN RoundDiv(ASSUMED_CONVERSION_RATE * ASSUMED_AVG_CONVERSION_VALUE * 100, cpc)
              ELSE 0])

StrategyFrame ==
    UNCHANGED <<METRICS, FUNCTION_MAP, metric_keys, metric_embeddings, handler_docs,
                playwright_available, gemini_model, GEMINI_AVAILABLE, exa_agent,
                image_gen_service, keyword_analysis_service, rag_engine, decorated>>

\* the request arrives; the service method starts with _check_service
StrategyStart ==
    \E impl \in Implementations :
        /\ pc = "idle"
        /\ keyword_analysis_service.stage = "ready"
        /\ req' = [op |-> "generate-marketing-strategy", svc |-> impl]
        /\ locals' = [calls |-> <<>>, lookups |-> 0, keywords_list |-> <<>>,
                      keyword_performance_data |-> <<>>]
        /\ IF impl = "keywordanalysis" /\ ~keyword_analysis_service.is_initialized
           THEN /\ pc' = "done"
                /\ resp' = Outcome(503, [detail |-> "Keyword Analysis service not initialized. Please check API keys."],
                                   0, <<>>, <<>>)
           ELSE pc' = "strategy_discover" /\ UNCHANGED resp
        /\ StrategyFrame

\* 1. keyword discovery
StrategyDiscover ==
    \E reply \in DiscoveryReplies :
        LET found == DiscoverKeywords(req.svc, reply)
        IN
        /\ pc = "strategy_discover"
        /\ locals' = [locals EXCEPT !.calls = Append(@, "discover_keywords"),
                                    !.keywords_list = found.keywords_list]
        /\ IF found.raised
           THEN pc' = "done" /\ resp' = Failure("Expecting value")
           ELSE IF NoKeywords(found.keywords_list)
           THEN pc' = "done" /\ resp' = Failure("500: Failed to generate keywords")
           ELSE pc' = "strategy_enrich" /\ UNCHANGED resp
        /\ UNCHANGED req
        /\ StrategyFrame

\* 2. enrichment with web sources
StrategyEnrich ==
    /\ pc = "strategy_enrich"
    /\ \E outcomes \in [1..Len(locals.keywords_list) -> LookupOutcomes] :
       \E skipped \in SUBSET AfterMalformed(locals.keywords_list) :
        LET done == EnrichKeywords(req.svc, locals.keywords_list, outcomes, skipped)
        IN
        /\ locals' = [locals EXCEPT !.calls = Append(@, "enrich_keywords_with_sources"),
                                    !.lookups = done.lookups,
                                    !.keyword_performance_data = done.keywords]
        /\ IF done.raised
           THEN pc' = "done" /\ resp' = Failure("'keyword'")
           ELSE pc' = "strategy_estimate" /\ UNCHANGED resp
        /\ UNCHANGED req
        /\ StrategyFrame

\* 3. estimate_ad_metrics
StrategyEstimate ==
    \E draw \in Draws :
        /\ pc = "strategy_estimate"
        /\ pc' = "strategy_project"
        /\ locals' = [locals EXCEPT
               !.calls = Append(@, "estimate_ad_metrics"),
               !.keyword_performance_data =
                   [i \in 1..Len(@) |-> EstimateAdMetrics(@[i], draw)]]
        /\ UNCHANGED <<req, resp>>
        /\ StrategyFrame

\* 4. project_advertising_performance
StrategyProject ==
    /\ pc = "strategy_project"
    /\ pc' = "strategy_synthesize"
    /\ locals' = [locals EXCEPT
           !.calls = Append(@, "project_advertising_performance"),
           !.keyword_performance_data =
               [i \in 1..Len(@) |-> ProjectAdvertisingPerformance(@[i])]]
    /\ UNCHANGED <<req, resp>>
    /\ StrategyFrame

\* synthesize_insights: the summary, or the exception of analysis.py's json.loads
SynthesizeInsights(impl, reply) ==
    IF reply = "json"
    THEN [raised |-> FALSE, summary |-> [executive_summary |-> "summary"]]
    ELSE IF impl = "keywordanalysis"
    THEN [raised |-> FALSE, summary |-> [executive_summary |-> "Analysis completed with simulated data."]]
    ELSE IF reply = "raises"
    THEN [raised |-> FALSE, summary |-> [error |-> "Failed to generate AI summary."]]
    ELSE [raised |-> TRUE, summary |-> NoDoc]

\* 5. to 7. the forecast, the insight synthesis and the final output
StrategySynthesize ==
    \E reply \in {"json", "bad_json", "raises"} :
        LET ai == SynthesizeInsights(req.svc, reply)
        IN
        /\ pc = "strategy_synthesize"
        /\ pc' = "done"
        /\ locals' = [locals EXCEPT
               !.calls = @ \o <<"generate_revenue_forecast", "synthesize_insights">>]
        /\ resp' = IF ai.raised
                   THEN Failure("Expecting value")
                   ELSE Outcome(200,
                          [dashboard_title |-> "Advertising Performance Dashboard",
                           ai_driven_strategy |-> ai.summary,
                           keyword_dashboard_data |-> locals.keyword_performance_data],
                          0, <<>>, <<>>)
        /\ UNCHANGED req
        /\ StrategyFrame

NextStrategy ==
    \/ KeywordServiceInit \/ StrategyStart \/ StrategyDiscover \/ StrategyEnrich
    \/ StrategyEstimate \/ StrategyProject \/ StrategySynthesize

SpecStrategy == InitRouter /\ [][NextStrategy]_vars

StrategyRequest == req.op = "generate-marketing-strategy"

\* C24: when keyword discovery yields an empty list, also after a failed
\* Gemini call, the request ends with HTTP 500 and no later stage runs: no
\* enrichment lookup, no estimation, no projection, no insight synthesis.
EmptyDiscoveryAborts ==
    (StrategyRequest /\ locals.calls # <<>> /\ locals.keywords_list = <<>>)
    => /\ pc = "done"
       /\ resp.status = 500
       /\ locals.calls = <<"discover_keywords">>
       /\ locals.lookups = 0
       /\ locals.keyword_performance_data = <<>>

\* discovery has run in the service of keywordanalysis.py and found nothing
EmptyDiscoveryWitness ==
    /\ StrategyRequest /\ req.svc = "keywordanalysis" /\ pc = "done"
    /\ locals.calls = <<"discover_keywords">>
    /\ locals.keywords_list = <<>>
    /\ resp.status = 500

EnrichedFields == {"description", "source"}
EstimatedFields == {"monthly_search_volume", "estimated_cpc"}
ProjectedFields ==
    {"estimated_monthly_clicks", "estimated_monthly_cost", "projected_monthly_conversions",
     "projected_monthly_revenue", "projected_roas"}

StrategySucceeded == StrategyRequest /\ pc = "done" /\ resp.status = 200

\* one entry per discovered keyword, in discovery order, each with the
\* fields of its discovery
OneEntryPerKeyword ==
    /\ Len(resp.doc.keyword_dashboard_data) = Len(locals.keywords_list)
    /\ \A i \in 1..Len(locals.keywords_list) :
          \A f \in DOMAIN locals.keywords_list[i] :
              /\ f \in DOMAIN resp.doc.keyword_dashboard_data[i]
              /\ resp.doc.keyword_dashboard_data[i][f] = locals.keywords_list[i][f]

StagesInOrder ==
    locals.calls = <<"discover_keywords", "enrich_keywords_with_sources", "estimate_ad_metrics",
                     "project_advertising_performance", "generate_revenue_forecast",
                     "synthesize_insights">>

\* C25: on every successful generate_marketing_strategy request,
\* keyword_dashboard_data has exactly one entry per discovered keyword in
\* discovery order, and each entry passed through enrichment, estimation and
\* projection in that order: it carries description and source,
\* monthly_search_volume and estimated_cpc, and all projected fields.
DashboardEntriesComplete ==
    StrategySucceeded
    => /\ OneEntryPerKeyword
       /\ StagesInOrder
       /\ \A i \in 1..Len(resp.doc.keyword_dashboard_data) :
             (EnrichedFields \cup EstimatedFields \cup ProjectedFields)
                 \subseteq DOMAIN resp.doc.keyword_dashboard_data[i]

\* the same when every discovered entry has the key 'keyword'; and an entry
\* always carries the estimated and the projected fields
DashboardEntriesCompleteIfWellFormed ==
    StrategySucceeded
    => /\ OneEntryPerKeyword
       /\ StagesInOrder
       /\ \A i \in 1..Len(resp.doc.keyword_dashboard_data) :
             /\ (EstimatedFields \cup ProjectedFields)
                    \subseteq DOMAIN resp.doc.keyword_dashboard_data[i]
             /\ (\A j \in 1..Len(locals.keywords_list) : WellFormed(locals.keywords_list[j]))
                    => EnrichedFields \subseteq DOMAIN resp.doc.keyword_dashboard_data[i]
             /\ (req.svc = "analysis" \/ WellFormed(locals.keywords_list[i]))
                    => WellFormed(resp.doc.keyword_dashboard_data[i])

(***************************************************************************)
(* The banner endpoints of the image generation service.                   *)
(***************************************************************************)
BannerImageRequest == pc = "done" /\ req.op = "generate-banner-image"

\* generate_banner_concept gave the text concept only
ConceptOnly == image_gen_service.client = "configured" /\ req.reply # "image"

\* the image was generated but its file is not there
ImageFileMissing ==
    image_gen_service.client = "configured" /\ req.reply = "image" /\ ~req.file_exists

\* C26: generate_banner_image_response answers HTTP 503 when banner
\* generation produced only a text concept and HTTP 404 when the generated
\* image file does not exist; HTTP 500 only for other failures.
BannerImageStatuses ==
    BannerImageRequest
    => /\ ConceptOnly => resp.status = 503
       /\ ImageFileMissing => resp.status = 404
       /\ resp.status = 500 => ~ConceptOnly /\ ~ImageFileMissing

\* every failure of generate_banner_image_response is answered with HTTP 500
BannerImageFailuresAre500 ==
    BannerImageRequest
    => /\ resp.status \in {200, 500}
       /\ resp.status = 200
            <=> (image_gen_service.client = "configured" /\ req.reply = "image"
                    /\ req.file_exists)

BannerConceptRequest == pc = "done" /\ req.op = "generate-banner-concept"

\* C27: with the Gemini service configured, generate_banner_concept never
\* fails because image generation raised or returned no image data: it
\* returns the text concept with fallback_mode true; it returns an image
\* document (with image_path) only after the image file has been written.
BannerConceptFallsBack ==
    (BannerConceptRequest /\ image_gen_service.client = "configured")
    => /\ resp.status = 200
       /\ req.reply \in {"raises", "no_image"}
            => /\ "fallback_mode" \in DOMAIN resp.doc.result
               /\ resp.doc.result.fallback_mode
               /\ "image_path" \notin DOMAIN resp.doc.result
       /\ "image_path" \in DOMAIN resp.doc.result => req.reply = "image"
       /\ locals.upstream = <<"gemini.generate_content">>

\* image generation raised and the text concept was returned
BannerFallbackWitness ==
    /\ BannerConceptRequest /\ image_gen_service.client = "configured"
    /\ req.reply = "raises"
    /\ resp.status = 200
    /\ resp.doc.result.fallback_mode

(***************************************************************************)
(* The RAG engine (ragengine.py): the construction of the singleton, one   *)
(* action per setup step, and POST /rag/query.                             *)
(***************************************************************************)
Questions == {"what is media.net", "how do I set up ads.txt"}

\* search_kwargs={"k": 3}
TopK == 3

Sources == {"guide.pdf", "Unknown source"}

\* retriever.get_relevant_documents: the sources of the chunks found
Retrievals == UNION {[1..n -> Sources] : n \in 0..TopK}

RagFrame ==
    UNCHANGED <<METRICS, FUNCTION_MAP, metric_keys, metric_embeddings, handler_docs,
                playwright_available, gemini_model, GEMINI_AVAILABLE, exa_agent,
                image_gen_service, keyword_analysis_service, decorated>>

\* _initialize_rag_components: the API keys are read
RagCheckKeys ==
    \E pinecone_key \in BOOLEAN : \E google_key \in BOOLEAN :
        /\ pc = "idle"
        /\ rag_engine.stage = "new"
        /\ rag_engine' = [rag_engine EXCEPT
               !.stage = IF pinecone_key /\ google_key THEN "embeddings" ELSE "ready"]
        /\ UNCHANGED <<pc, locals, req, resp>>
        /\ RagFrame

\* a setup step sets its component unless the import or the constructor raised
Setup(engine, component, ok, next) ==
    [engine EXCEPT ![component] = IF ok THEN "configured" ELSE @, !.stage = next]

\* _setup_embeddings
RagSetupEmbeddings ==
    \E ok \in BOOLEAN :
        /\ rag_engine.stage = "embeddings"
        /\ rag_engine' = Setup(rag_engine, "embeddings", ok, "vectorstore")
        /\ UNCHANGED <<pc, locals, req, resp>>
        /\ RagFrame

\* _setup_vectorstore
RagSetupVectorstore ==
    \E ok \in BOOLEAN :
        /\ rag_engine.stage = "vectorstore"
        /\ rag_engine' = Setup(rag_engine, "vectorstore", ok, "llm")
        /\ UNCHANGED <<pc, locals, req, resp>>
        /\ RagFrame

\* _setup_llm
RagSetupLlm ==
    \E ok \in BOOLEAN :
        /\ rag_engine.stage = "llm"
        /\ rag_engine' = Setup(rag_engine, "llm", ok, "finish")
        /\ UNCHANGED <<pc, locals, req, resp>>
        /\ RagFrame

\* is_initialized is set although a component is missing
AnyComponentSet(engine) ==
    engine.vectorstore # "None" \/ engine.llm # "None" \/ engine.embeddings # "None"

\* if self.vectorstore and self.llm and self.embeddings
AllComponentsSet(engine) ==
    engine.vectorstore # "None" /\ engine.llm # "None" /\ engine.embeddings # "None"

\* the end of _initialize_rag_components
RagFinish ==
    /\ rag_engine.stage = "finish"
    /\ rag_engine' = [rag_engine EXCEPT
           !.is_initialized = IF AllComponentsSet(rag_engine) THEN TRUE ELSE @,
           !.stage = "ready"]
    /\ UNCHANGED <<pc, locals, req, resp>>
    /\ RagFrame

\* the sources of the chunks, each once, in retrieval order
RECURSIVE Dedupe(_)
Dedupe(sources) ==
    IF sources = <<>> THEN <<>>
    ELSE LET front == Dedupe(SubSeq(sources, 1, Len(sources) - 1))
             last  == sources[Len(sources)]
         IN IF last \in Range(front) THEN front ELSE Append(front, last)

\* min(len(retrieved_docs) * 0.3, 1.0) if retrieved_docs else 0.1, in tenths
Confidence(retrieved_docs) ==
    IF retrieved_docs = <<>> THEN 1 ELSE Min(Len(retrieved_docs) * 3, 10)

\* RAGEngine.query_documents
QueryDocuments(engine, question, retrieval, llm) ==
    IF ~engine.is_initialized
    THEN AgentRaises(503, "RAG Engine not initialized. Please check API keys and dependencies.",
                     <<>>)
    ELSE IF retrieval.raises
    THEN AgentRaises(500, "Query processing failed", <<"retriever.get_relevant_documents">>)
    ELSE IF llm = "raises"
    THEN AgentRaises(500, "Query processing failed",
                     <<"retriever.get_relevant_documents", "llm.invoke">>)
    ELSE [status |-> 200,
          doc |-> [question |-> question, answer |-> "response.content",
                   sources |-> Dedupe(retrieval.docs),
                   confidence |-> Confidence(retrieval.docs)],
          upstream |-> <<"retriever.get_relevant_documents", "llm.invoke">>]

\* POST /rag/query
query_media_net ==
    \E question \in Questions : \E llm \in {"answer", "raises"} :
    \E retrieval \in {[raises |-> TRUE, docs |-> <<>>]}
                        \cup {[raises |-> FALSE, docs |-> docs] : docs \in Retrievals} :
        LET result == QueryDocuments(rag_engine, question, retrieval, llm)
        IN
        /\ pc = "idle"
        /\ rag_engine.stage = "ready"
        /\ req' = [op |-> "rag-query", svc |-> "rag", question |-> question,
                   retrieval |-> retrieval, llm |-> llm]
        /\ locals' = [upstream |-> result.upstream]
        /\ resp' = ServiceResponse(result)
        /\ UNCHANGED <<pc, rag_engine>>
        /\ RagFrame

NextRag ==
    \/ RagCheckKeys \/ RagSetupEmbeddings \/ RagSetupVectorstore \/ RagSetupLlm \/ RagFinish
    \/ query_media_net

SpecRag == InitRouter /\ [][NextRag]_vars

\* C28: in every reachable state of the RAG engine is_initialized is true
\* only if embeddings, vectorstore and llm are all set; query_documents calls
\* the retriever and the LLM only when is_initialized is true and otherwise
\* answers HTTP 503 without any upstream call.
RagInitializedOnlyIfComplete ==
    /\ rag_engine.is_initialized
        => /\ rag_engine.embeddings # "None"
           /\ rag_engine.vectorstore # "None"
           /\ rag_engine.llm # "None"
    /\ req.op = "rag-query"
        => /\ locals.upstream # <<>> => rag_engine.is_initialized
           /\ ~rag_engine.is_initialized => resp.status = 503 /\ locals.upstream = <<>>
           /\ rag_engine.is_initialized => resp.status \in {200, 500}

\* the engine was built with the language model missing and a query was answered
RagPartialEngineWitness ==
    /\ req.op = "rag-query"
    /\ rag_engine.stage = "ready"
    /\ rag_engine.embeddings # "None" /\ rag_engine.vectorstore # "None"
    /\ rag_engine.llm = "None"
    /\ resp.status = 503

(***************************************************************************)
(* The alignment of the catalog, the handler map and the embeddings.       *)
(***************************************************************************)
\* the keys of the FUNCTION_MAP dict displays, in insertion order
FunctionMapKeys(svc) ==
    IF svc = "advertiser"
    THEN <<"impressions", "clicks", "conversions", "cpc", "cpm", "cpa", "spend", "roi">>
    ELSE <<"impressions", "clicks", "revenue", "rpm", "geography">>

\* C29: in both services the metric catalog, the key-to-handler map and the
\* cached embedding list have the same keys in the same order, and the
\* 'metric' field of each handler's payload equals its catalog key; index i
\* of the similarity vector dispatches to the handler of the i-th catalog key
\* and the confirmation string names the matched key.
CatalogAligned ==
    /\ \A svc \in Services :
          /\ KeysOf(METRICS[svc]) = FunctionMapKeys(svc)
          /\ DOMAIN FUNCTION_MAP[svc] = Range(FunctionMapKeys(svc))
          /\ metric_keys[svc] = FunctionMapKeys(svc)
          /\ Len(metric_embeddings[svc]) = Len(metric_keys[svc])
          /\ \A i \in 1..Len(metric_keys[svc]) :
                /\ metric_embeddings[svc][i]
                     = Encode(<<metric_keys[svc][i], ": ", METRICS[svc][i][2]>>)
                /\ handler_docs[svc][FUNCTION_MAP[svc][metric_keys[svc][i]]]["metric"]
                     = metric_keys[svc][i]
    /\ (SemanticRequest /\ resp.handler_calls # <<>>)
        => \E i \in 1..Len(metric_keys[req.svc]) :
              /\ req.oracle[metric_embeddings[req.svc][i]] = MaxSimilarity(req.oracle)
              /\ \A j \in 1..(i - 1) :
                    req.oracle[metric_embeddings[req.svc][j]] < MaxSimilarity(req.oracle)
              /\ resp.handler_calls = <<FUNCTION_MAP[req.svc][metric_keys[req.svc][i]]>>
              /\ resp.doc["chat_response"]
                    = <<"Here's your ", metric_keys[req.svc][i], " data with visualization">>

\* the similarity search picked the last index of the advertiser catalog
LastIndexDispatchWitness ==
    /\ SemanticRequest /\ req.svc = "advertiser"
    /\ resp.handler_calls = <<"get_roi">>
    /\ resp.doc["metric"] = "roi"

====
